---- MODULE Spec2Model ----
(***************************************************************************)
(* A model of meshlab_tools: the MeshlabSession wrapper around the engine's *)
(* MeshSet (connection.py), the alignment operations (alignment.py), batch  *)
(* processing of a directory (batch.py), mesh repair (repair.py) and the    *)
(* tool calls of the MCP server (mcp_server.py).                            *)
(*                                                                          *)
(* Numbers.  The code computes in double precision; the model computes      *)
(* exactly, over the integers.  A mean of N points is held as its           *)
(* numerator (the column sum) over the denominator N, so every value the    *)
(* Kabsch recipe derives from a mean is held scaled by N (or N*N), which    *)
(* changes neither the singular vectors nor the rotation.  The translation  *)
(* is stored as a fraction in lowest terms.                                 *)
(*                                                                          *)
(* np.linalg.svd.  The engine of the recipe is numpy's SVD, which is not    *)
(* code of this repository.  It is modelled by its contract: it returns     *)
(* some U, S, Vt with U and Vt orthogonal, S non-negative and descending,   *)
(* and U * diag(S) * Vt = H.  Where the decomposition is not unique (equal  *)
(* or zero singular values, column signs) every decomposition is a          *)
(* possible return value.  Over the integers the orthogonal matrices are    *)
(* the 48 signed permutation matrices, so the inputs of the model are the   *)
(* correspondence lists whose cross-covariance has such a decomposition.    *)
(***************************************************************************)
EXTENDS Integers, Sequences, FiniteSets, TLC

\* Longest list of correspondence pairs handed to align_point_based.
MaxPairs == 4
\* Most meshes loaded into one session.
MaxMeshes == 2
\* Most meshes loaded into a session that also deletes meshes.
MaxLoads == MaxMeshes + 1

----------------------------------------------------------------------------
(* 3-vectors and 3x3 matrices (a matrix is the tuple of its rows).          *)

Abs(x) == IF x < 0 THEN -x ELSE x

RECURSIVE Gcd(_, _)
Gcd(a, b) == IF b = 0 THEN a ELSE Gcd(b, a % b)

Dot3(u, v) == u[1] * v[1] + u[2] * v[2] + u[3] * v[3]

VecAdd(u, v) == <<u[1] + v[1], u[2] + v[2], u[3] + v[3]>>
VecSub(u, v) == <<u[1] - v[1], u[2] - v[2], u[3] - v[3]>>
VecScale(k, u) == <<k * u[1], k * u[2], k * u[3]>>

Col(A, j) == <<A[1][j], A[2][j], A[3][j]>>
Transpose(A) == <<Col(A, 1), Col(A, 2), Col(A, 3)>>
MatVec(A, v) == <<Dot3(A[1], v), Dot3(A[2], v), Dot3(A[3], v)>>
MatMul(A, B) ==
    LET Bt == Transpose(B)
    IN  <<MatVec(Bt, A[1]), MatVec(Bt, A[2]), MatVec(Bt, A[3])>>

Det3(A) ==
      A[1][1] * (A[2][2] * A[3][3] - A[2][3] * A[3][2])
    - A[1][2] * (A[2][1] * A[3][3] - A[2][3] * A[3][1])
    + A[1][3] * (A[2][1] * A[3][2] - A[2][2] * A[3][1])

Diag(a, b, c) == <<<<a, 0, 0>>, <<0, b, 0>>, <<0, 0, c>>>>
Identity3 == Diag(1, 1, 1)
Zero3 == <<0, 0, 0>>

\* The orthogonal 3x3 matrices with integer entries: signed permutations.
UnitVectors ==
    {<<1, 0, 0>>, <<-1, 0, 0>>, <<0, 1, 0>>, <<0, -1, 0>>, <<0, 0, 1>>, <<0, 0, -1>>}
Orthogonal ==
    {A \in {<<r1, r2, r3>> : r1 \in UnitVectors, r2 \in UnitVectors, r3 \in UnitVectors} :
        /\ Dot3(A[1], A[2]) = 0
        /\ Dot3(A[1], A[3]) = 0
        /\ Dot3(A[2], A[3]) = 0}

----------------------------------------------------------------------------
(* np.linalg.svd(H), by its contract.                                       *)

\* The rows U^T*H must have for U to be the left factor: row i is S[i]
\* times a unit vector, with S non-negative and descending.
RowNorm(r) == Abs(r[1]) + Abs(r[2]) + Abs(r[3])
IsScaledUnit(r) == Cardinality({j \in 1..3 : r[j] # 0}) <= 1

\* The right factors that complete a left factor U, given M = U^T * H.
RightFactors(U, M) ==
    IF /\ \A i \in 1..3 : IsScaledUnit(M[i])
       /\ RowNorm(M[1]) >= RowNorm(M[2])
       /\ RowNorm(M[2]) >= RowNorm(M[3])
    THEN {<<U, <<RowNorm(M[1]), RowNorm(M[2]), RowNorm(M[3])>>, Vt>> :
            Vt \in {W \in Orthogonal :
                      \A i \in 1..3 : M[i] = VecScale(RowNorm(M[i]), W[i])}}
    ELSE {}

\* The decompositions <<U, S, Vt>> of H.
svd(H) ==
    UNION {RightFactors(UM[1], UM[2]) :
             UM \in {<<U, MatMul(Transpose(U), H)>> : U \in Orthogonal}}

----------------------------------------------------------------------------
(* align_point_based: the closed-form rigid fit (Kabsch).                   *)

\* A correspondence pair is <<source_point, target_point>>.
source_pts(point_pairs) == [i \in 1..Len(point_pairs) |-> point_pairs[i][1]]
target_pts(point_pairs) == [i \in 1..Len(point_pairs) |-> point_pairs[i][2]]

\* np.array(..., dtype=float) and the matrix products need every point to be
\* a 3-vector; any other shape raises ValueError.
WellFormed(point_pairs) ==
    \A i \in 1..Len(point_pairs) :
        Len(point_pairs[i][1]) = 3 /\ Len(point_pairs[i][2]) = 3

\* The sum of the first n entries of a sequence of numbers.
RECURSIVE SumTo(_, _)
SumTo(xs, n) == IF n = 0 THEN 0 ELSE xs[n] + SumTo(xs, n - 1)

\* The first point taken for the centroid.
FirstPointAsCentroid(pts) == VecScale(Len(pts), pts[1])

\* pts.sum(axis=0): the numerator of pts.mean(axis=0), whose denominator is
\* Len(pts).
ColSum(pts) ==
    [j \in 1..3 |-> SumTo([k \in 1..Len(pts) |-> pts[k][j]], Len(pts))]

\* pts - centroid, scaled by Len(pts).
Centered(pts) ==
    LET total == ColSum(pts)
    IN  [k \in 1..Len(pts) |-> VecSub(VecScale(Len(pts), pts[k]), total)]

\* a.T @ b for two stacks of row vectors of the same length.
StackProduct(a, b) ==
    [i \in 1..3 |-> [j \in 1..3 |->
        SumTo([k \in 1..Len(a) |-> a[k][i] * b[k][j]], Len(a))]]

\* H = src_c.T @ tgt_c, scaled by Len(point_pairs)^2.
CrossCovariance(point_pairs) ==
    LET src_c == Centered(source_pts(point_pairs))
        tgt_c == Centered(target_pts(point_pairs))
    IN  StackProduct(src_c, tgt_c)

\* d left at 1: no correction of a reflection.
NoReflectionFix(U, Vt) == 1

\* d = det(Vt.T @ U.T)
ReflectionSign(U, Vt) == Det3(MatMul(Transpose(Vt), Transpose(U)))

\* R = U @ D @ Vt: the rotation from target to source.
RotationBackwards(U, Vt) ==
    MatMul(MatMul(U, Diag(1, 1, Det3(MatMul(Transpose(Vt), Transpose(U))))), Vt)

\* D = diag(1, 1, d); R = Vt.T @ D @ U.T
Rotation(U, Vt) ==
    MatMul(MatMul(Transpose(Vt), Diag(1, 1, ReflectionSign(U, Vt))), Transpose(U))

\* t = tgt_centroid - R @ src_centroid, scaled by Len(point_pairs).
Translation(R, point_pairs) ==
    VecSub(ColSum(target_pts(point_pairs)), MatVec(R, ColSum(source_pts(point_pairs))))

\* The 4x4 homogeneous matrix T: its rotation block and its translation
\* column, the latter as the fraction t / den in lowest terms.
Homogeneous(R, tN, n) ==
    LET g == Gcd(Gcd(Gcd(n, Abs(tN[1])), Abs(tN[2])), Abs(tN[3]))
    IN  [R |-> R, t |-> <<tN[1] \div g, tN[2] \div g, tN[3] \div g>>, den |-> n \div g]

\* Every R the code can build from H: one per decomposition np.linalg.svd
\* may return.
Rotations(H) == {Rotation(usv[1], usv[3]) : usv \in svd(H)}

----------------------------------------------------------------------------
(* The correspondence lists the model hands to align_point_based.  Each     *)
(* family is a set of pairs; a list is any sequence over one family.        *)

RotZ90 == <<<<0, -1, 0>>, <<1, 0, 0>>, <<0, 0, 1>>>>
RotX90 == <<<<1, 0, 0>>, <<0, 0, -1>>, <<0, 1, 0>>>>
MirrorZ == Diag(1, 1, -1)

\* The four unit-axis points of the x-y plane and the corners of a
\* tetrahedron.
AxisPoints == {<<1, 0, 0>>, <<-1, 0, 0>>, <<0, 1, 0>>, <<0, -1, 0>>}
TetraPoints == {<<1, 1, 1>>, <<1, -1, -1>>, <<-1, 1, -1>>, <<-1, -1, 1>>}

\* target = source.
IdentityPairs == {<<p, p>> : p \in AxisPoints}
\* target = source turned 90 degrees about z.
TurnedPairs == {<<p, MatVec(RotZ90, p)>> : p \in AxisPoints}
\* target = 2 * source: a correspondence no rigid motion explains.
ScaledPairs == {<<p, VecScale(2, p)>> : p \in AxisPoints}
\* target = source turned 90 degrees about x and moved by (1, 2, 3).
MovedPairs == {<<p, VecAdd(MatVec(RotX90, p), <<1, 2, 3>>)>> : p \in TetraPoints}
\* target = the mirror image of source.
MirroredPairs == {<<p, MatVec(MirrorZ, p)>> : p \in TetraPoints}

Families == {IdentityPairs, TurnedPairs, ScaledPairs, MovedPairs, MirroredPairs}

SeqsUpTo(S, n) == UNION {{q : q \in [1..k -> S]} : k \in 0..n}

\* The cross-covariance has a decomposition into signed permutations iff no
\* row and no column of it holds two non-zero entries.
Decomposable(H) ==
    /\ \A i \in 1..3 : IsScaledUnit(H[i])
    /\ \A j \in 1..3 : IsScaledUnit(Col(H, j))

\* The non-empty lists of 3-D pairs.
KabschInputs ==
    {r : r \in UNION {{q \in SeqsUpTo(F, MaxPairs) :
                         /\ q # <<>>
                         /\ \E H \in {CrossCovariance(q)} : Decomposable(H)}
                      : F \in Families}}

\* Lists holding a point that is no 3-vector.
FlatPair == <<<<1, 0>>, <<1, 0>>>>
MalformedInputs ==
    {[i \in 1..k |-> FlatPair] : k \in 1..MaxPairs}
        \cup {<<p, FlatPair>> : p \in IdentityPairs}

\* H and Rotations(H), worked out once for each list and each H.
CovarianceTable == [q \in KabschInputs |-> CrossCovariance(q)]
RotationTable == [H \in {CovarianceTable[q] : q \in KabschInputs} |-> Rotations(H)]

\* Lines 115-135: every T the code can build for a list of 3-D pairs.
PointBasedTransforms(point_pairs) ==
    {Homogeneous(Rt[1], Rt[2], Len(point_pairs)) :
        Rt \in {<<R, Translation(R, point_pairs)>> :
                  R \in RotationTable[CovarianceTable[point_pairs]]}}
PointBasedTable == [q \in KabschInputs |-> PointBasedTransforms(q)]

----------------------------------------------------------------------------
(* The engine's MeshSet behind a MeshlabSession.                            *)

VARIABLES
    ms,     \* session -> its MeshSet: meshes held, current mesh, geometry
    call,   \* the sequential caller's latest invocation and how it ended
    thr,    \* concurrent caller -> the invocation it is running
    hist,   \* session -> how many of its load_mesh and delete_mesh calls
            \* have succeeded, how many meshes the engine has made for it,
            \* and whether apply_filter has been called on it
    disk    \* the file system: the input tree and the files written

vars == <<ms, call, thr, hist, disk>>

\* current_mesh_id of a MeshSet that holds no mesh.
NoMesh == -1

\* MeshSet(): no mesh, no current mesh.  n is the engine's id counter, ids
\* the ids of the meshes held.  The geometry of a mesh is held as the list
\* of the matrices frozen into its vertices since it was loaded.
MeshSet ==
    [n |-> 0, ids |-> {}, cur |-> NoMesh,
     geom |-> [id \in 0..(MaxLoads - 1) |-> <<>>]]

\* The ids set_current_mesh accepts.
HasMesh(m, mesh_id) == mesh_id \in m.ids

\* ms.mesh_number()
mesh_number(m) == Cardinality(m.ids)

\* The mesh that takes for its id the number of meshes the set holds.
load_new_mesh_renumbered(m) ==
    [m EXCEPT !.n = m.n + 1, !.ids = m.ids \cup {mesh_number(m)},
              !.cur = mesh_number(m)]

\* ms.load_new_mesh(path): the mesh takes the next id of the counter, which
\* never goes back, and becomes the current one.
load_new_mesh(m) ==
    [m EXCEPT !.n = m.n + 1, !.ids = m.ids \cup {m.n}, !.cur = m.n]

\* ms.delete_current_mesh(): the ids of the other meshes stay as they were.
\* Which of them the engine makes current is its own business: any of them,
\* or none when the set is left empty.
delete_current_mesh(m) ==
    LET rest == m.ids \ {m.cur}
    IN  {[m EXCEPT !.ids = rest, !.cur = c] :
            c \in IF rest = {} THEN {NoMesh} ELSE rest}

\* ms.<filter_name>() on the current mesh.
filtered(m, filter_name) ==
    [m EXCEPT !.geom[m.cur] = Append(@, [filter |-> filter_name])]

\* ms.set_current_mesh(mesh_id), for a mesh the set holds.
set_current_mesh(m, mesh_id) == [m EXCEPT !.cur = mesh_id]

\* ms.set_matrix(T, compose=False, freeze=True, alllayers=False): T is
\* frozen into the current mesh only.
set_matrix(m, T) == [m EXCEPT !.geom[m.cur] = Append(@, T)]

\* The matrix ICP settles on is the engine's business; the model records
\* only which reference mesh it was computed against.
IcpMatrix(referencemesh) == [icp |-> referencemesh]

\* The registration that moves the reference mesh onto the source mesh.
icp_moves_reference(m, referencemesh, sourcemesh) ==
    [m EXCEPT !.geom[referencemesh] = Append(@, IcpMatrix(sourcemesh))]

\* ms.compute_matrix_by_icp_between_meshes(referencemesh, sourcemesh, ...):
\* moves the source mesh in place.
compute_matrix_by_icp_between_meshes(m, referencemesh, sourcemesh) ==
    [m EXCEPT !.geom[sourcemesh] = Append(@, IcpMatrix(referencemesh))]

\* How an invocation ends: the MeshSet it leaves, and either the dict it
\* returns or the exception it raises.
Returned(m, result, T) ==
    [m |-> m, outcome |-> "returned", result |-> result, T |-> T]
Raised(m, exc) ==
    [m |-> m, outcome |-> "raised", exc |-> exc]

\* The default of max_iterations.
max_iterations == 75

\* align_icp(session, source_mesh_id, target_mesh_id, max_iterations=...)
\* on MeshSet m; maxiternum is the max_iterations argument, which the
\* engine is given under that name and the result reports back.
align_icp(m, source_mesh_id, target_mesh_id, maxiternum) ==
    IF ~HasMesh(m, source_mesh_id)
    THEN Raised(m, "PyMeshLabException")
    ELSE IF ~HasMesh(m, target_mesh_id)
    THEN Raised(set_current_mesh(m, source_mesh_id), "PyMeshLabException")
    ELSE Returned(
            compute_matrix_by_icp_between_meshes(
                set_current_mesh(m, source_mesh_id), target_mesh_id, source_mesh_id),
            [source_mesh_id |-> source_mesh_id,
             target_mesh_id |-> target_mesh_id,
             iterations_performed |-> maxiternum,
             final_rms_error |-> 0],
            IcpMatrix(target_mesh_id))

\* Every call handed on to align_icp, whatever pairs it brings.
always_icp(m, source_mesh_id, target_mesh_id, point_pairs) ==
    LET r == align_icp(m, source_mesh_id, target_mesh_id, max_iterations)
    IN  IF r.outcome = "returned"
        THEN {[r EXCEPT !.result = [method |-> "icp_fallback"] @@ r.result]}
        ELSE {r}

\* The ways align_point_based(session, source, target, point_pairs) can end
\* on MeshSet m.  The empty list stands for both falsy arguments, None and [].
point_based_runs(m, source_mesh_id, target_mesh_id, point_pairs) ==
    IF point_pairs = <<>>
    THEN LET r == align_icp(m, source_mesh_id, target_mesh_id, max_iterations)
         IN  IF r.outcome = "returned"
             THEN {[r EXCEPT !.result = [method |-> "icp_fallback"] @@ r.result]}
             ELSE {r}
    ELSE IF ~HasMesh(m, source_mesh_id)
    THEN {Raised(m, "PyMeshLabException")}
    ELSE IF ~WellFormed(point_pairs)
    THEN {Raised(set_current_mesh(m, source_mesh_id), "ValueError")}
    ELSE {Returned(
            set_matrix(set_current_mesh(m, source_mesh_id), T),
            [source_mesh_id |-> source_mesh_id,
             target_mesh_id |-> target_mesh_id,
             method |-> "point_based",
             pairs_used |-> Len(point_pairs)],
            T) : T \in PointBasedTable[point_pairs]}

----------------------------------------------------------------------------
(* One caller, one session.                                                 *)

NoCall == [op |-> "none"]
\* The history of a session into which k meshes have been loaded, and no
\* file system in play.
LoadsOnly(k) == [loads |-> k, deletes |-> 0, raw |-> FALSE, made |-> k]
NoHistory == LoadsOnly(0)
NoDisk == <<>>

Init ==
    /\ ms = [s \in {"session"} |-> MeshSet]
    /\ call = NoCall
    /\ thr = <<>>
    /\ hist = [s \in {"session"} |-> NoHistory]
    /\ disk = NoDisk

\* MeshlabSession.load_mesh(path)
load_mesh(s) ==
    /\ call.op = "none"
    /\ ms[s].n < MaxMeshes
    /\ ms' = [ms EXCEPT ![s] = load_new_mesh(@)]
    /\ hist' = [hist EXCEPT ![s].loads = @ + 1, ![s].made = @ + 1]
    /\ UNCHANGED <<call, thr, disk>>

\* MeshlabSession.set_active_mesh(mesh_id); the engine raises, and changes
\* nothing, for an id it does not hold.
set_active_mesh(s, mesh_id) ==
    /\ call.op = "none"
    /\ ms' = IF HasMesh(ms[s], mesh_id)
             THEN [ms EXCEPT ![s] = set_current_mesh(@, mesh_id)]
             ELSE ms
    /\ UNCHANGED <<call, thr, hist, disk>>

\* The arguments the caller may pass.
MeshIds == 0..MaxMeshes
AllInputs == KabschInputs \cup MalformedInputs \cup {<<>>}

\* align_point_based(session, source_mesh_id, target_mesh_id, point_pairs),
\* from the call to the return or the exception.
align_point_based(s) ==
    /\ call.op = "none"
    /\ \E source_mesh_id \in MeshIds, target_mesh_id \in MeshIds, point_pairs \in AllInputs :
         \E r \in point_based_runs(ms[s], source_mesh_id, target_mesh_id, point_pairs) :
            /\ ms' = [ms EXCEPT ![s] = r.m]
            /\ call' = [op |-> "align_point_based",
                        session |-> s,
                        source_mesh_id |-> source_mesh_id,
                        target_mesh_id |-> target_mesh_id,
                        point_pairs |-> point_pairs,
                        before |-> ms[s],
                        end |-> [f \in DOMAIN r \ {"m"} |-> r[f]]]
    /\ UNCHANGED <<thr, hist, disk>>

Next ==
    \/ \E s \in DOMAIN ms : load_mesh(s)
    \/ \E s \in DOMAIN ms : \E mesh_id \in MeshIds : set_active_mesh(s, mesh_id)
    \/ \E s \in DOMAIN ms : align_point_based(s)

Spec == Init /\ [][Next]_vars

----------------------------------------------------------------------------
(* Two callers, each running align_point_based in a thread of its own, on   *)
(* one session or on two.  A thread can be preempted between any two calls  *)
(* into the engine, so an invocation is three steps: lines 104-111 (up to   *)
(* ms.set_current_mesh), lines 113-135 (the fit) and lines 137-144           *)
(* (ms.set_matrix and the return).                                          *)

Callers == {"A", "B"}
Idle == [pc |-> "idle"]

\* A session with k meshes loaded.
RECURSIVE Loaded(_)
Loaded(k) == IF k = 0 THEN MeshSet ELSE load_new_mesh(Loaded(k - 1))

\* The spec's scenario: the four unit-axis points turned 90 degrees about z.
QuarterTurnScenario ==
    <<<<<<1, 0, 0>>, <<0, 1, 0>>>>, <<<<-1, 0, 0>>, <<0, -1, 0>>>>,
      <<<<0, 1, 0>>, <<-1, 0, 0>>>>, <<<<0, -1, 0>>, <<1, 0, 0>>>>>>

\* The spec's scenario of four unit-axis pairs with target = source.
UnitAxisScenario ==
    <<<<<<1, 0, 0>>, <<1, 0, 0>>>>, <<<<-1, 0, 0>>, <<-1, 0, 0>>>>,
      <<<<0, 1, 0>>, <<0, 1, 0>>>>, <<<<0, -1, 0>>, <<0, -1, 0>>>>>>

\* The lists the concurrent callers pass.
ConcurrentInputs ==
    {q \in KabschInputs :
        \/ Len(q) = 3 /\ q = SubSeq(UnitAxisScenario, 1, 3)
        \/ Len(q) = 3 /\ q = SubSeq(QuarterTurnScenario, 1, 3)
        \/ Len(q) = 4 /\ q = QuarterTurnScenario}

InitConc ==
    /\ ms = [s \in {"session_a", "session_b"} |-> Loaded(MaxMeshes)]
    /\ call = NoCall
    /\ thr = [c \in Callers |-> Idle]
    /\ hist = [s \in {"session_a", "session_b"} |-> LoadsOnly(MaxMeshes)]
    /\ disk = NoDisk

\* Lines 104-111: the call, with pairs to fit, up to ms.set_current_mesh.
align_select(c) ==
    /\ thr[c].pc = "idle"
    /\ \E s \in DOMAIN ms, source_mesh_id \in MeshIds, target_mesh_id \in MeshIds,
          point_pairs \in ConcurrentInputs :
         LET args == [session |-> s,
                      source_mesh_id |-> source_mesh_id,
                      target_mesh_id |-> target_mesh_id,
                      point_pairs |-> point_pairs]
         IN  IF HasMesh(ms[s], source_mesh_id)
             THEN /\ ms' = [ms EXCEPT ![s] = set_current_mesh(@, source_mesh_id)]
                  /\ thr' = [thr EXCEPT ![c] = [pc |-> "selected", args |-> args]]
             ELSE /\ ms' = ms
                  /\ thr' = [thr EXCEPT ![c] =
                                [pc |-> "raised", args |-> args, exc |-> "PyMeshLabException"]]
    /\ UNCHANGED <<call, hist, disk>>

\* Lines 113-135: the fit, on the thread's own arrays.
align_fit(c) ==
    /\ thr[c].pc = "selected"
    /\ \E T \in PointBasedTransforms(thr[c].args.point_pairs) :
         thr' = [thr EXCEPT ![c] = [pc |-> "fitted", args |-> thr[c].args, T |-> T]]
    /\ UNCHANGED <<ms, call, hist, disk>>

\* Lines 137-144: ms.set_matrix and the return.
align_apply(c) ==
    /\ thr[c].pc = "fitted"
    /\ ms' = [ms EXCEPT ![thr[c].args.session] = set_matrix(@, thr[c].T)]
    /\ thr' = [thr EXCEPT ![c] =
                  [pc |-> "returned", args |-> thr[c].args, T |-> thr[c].T,
                   result |-> [source_mesh_id |-> thr[c].args.source_mesh_id,
                               target_mesh_id |-> thr[c].args.target_mesh_id,
                               method |-> "point_based",
                               pairs_used |-> Len(thr[c].args.point_pairs)]]]
    /\ UNCHANGED <<call, hist, disk>>

NextConc ==
    \/ \E c \in Callers : align_select(c)
    \/ \E c \in Callers : align_fit(c)
    \/ \E c \in Callers : align_apply(c)

SpecConc == InitConc /\ [][NextConc]_vars

----------------------------------------------------------------------------
(* What the claims speak of.                                                *)

Called == call.op = "align_point_based"
CallReturned == Called /\ call.end.outcome = "returned"
CallRaised == Called /\ call.end.outcome = "raised"
\* The call took the closed-form branch and returned.
FitReturned == CallReturned /\ call.end.result.method = "point_based"

\* The MeshSet of the call's session as the call left it.
After == ms[call.session]
SourceLoaded == HasMesh(call.before, call.source_mesh_id)

\* The rank of a 3x3 matrix.
Minors2(A) ==
    {A[i][k] * A[j][l] - A[i][l] * A[j][k] :
        i \in 1..2, j \in 2..3, k \in 1..2, l \in 2..3}
Rank(A) ==
    IF Det3(A) # 0 THEN 3
    ELSE IF Minors2(A) # {0} THEN 2
    ELSE IF \E i \in 1..3 : A[i] # Zero3 THEN 1
    ELSE 0

\* The rank of the cross-covariance of each list of 3-D pairs.
RankTable == [q \in KabschInputs |-> Rank(CovarianceTable[q])]

\* Three or more pairs whose cross-covariance determines the rotation.
ValidInput(point_pairs) ==
    /\ point_pairs \in DOMAIN RankTable
    /\ Len(point_pairs) >= 3
    /\ RankTable[point_pairs] >= 2

----------------------------------------------------------------------------
(* C1 *)

\* C1: a call with fewer than 3 correspondence pairs fails with
\* InsufficientCorrespondencesError, and no transform is applied to the
\* source mesh.  (Stated for the calls that pass a loaded source mesh and a
\* non-empty list of 3-D pairs; the code sends None and [] to ICP.)
C1_FewPairsRejected ==
    (/\ Called
     /\ SourceLoaded
     /\ Len(call.point_pairs) \in 1..2
     /\ WellFormed(call.point_pairs)) =>
        /\ call.end.outcome = "raised"
        /\ call.end.exc = "InsufficientCorrespondencesError"
        /\ After.geom = call.before.geom

----------------------------------------------------------------------------
(* C2 *)

\* C2: after align_point_based returns from fitting the pairs it
\* was given, the current-mesh selection and every mesh's geometry are what
\* they were before the call.
C2_NothingMutated ==
    FitReturned => (After.cur = call.before.cur /\ After.geom = call.before.geom)

----------------------------------------------------------------------------
(* C3 *)

\* C3: when align_point_based, given pairs to fit, raises, the session's
\* current mesh and every mesh's geometry are what they were before the call.
C3_FailureLeavesNoTrace ==
    (CallRaised /\ call.point_pairs # <<>>) => (After.cur = call.before.cur /\ After.geom = call.before.geom)

----------------------------------------------------------------------------
(* C4 *)

\* C4: for 3 or more non-degenerate pairs, the rotation block R of the
\* transform the call applies satisfies R^T * R = I and det(R) = +1.
C4_ProperRotation ==
    (FitReturned /\ ValidInput(call.point_pairs)) =>
        /\ MatMul(Transpose(call.end.T.R), call.end.T.R) = Identity3
        /\ Det3(call.end.T.R) = 1

\* Exactly 3 non-collinear pairs, fitted by a quarter turn.
C4_Witness ==
    /\ FitReturned
    /\ Len(call.point_pairs) = 3
    /\ ValidInput(call.point_pairs)
    /\ call.end.T.R = RotZ90

----------------------------------------------------------------------------
(* C5 *)

\* Three or more 3-D pairs whose cross-covariance has rank 0 or 1.
DegenerateInput(point_pairs) ==
    /\ point_pairs \in DOMAIN RankTable
    /\ Len(point_pairs) >= 3
    /\ RankTable[point_pairs] <= 1

\* C5: given 3 or more coincident or collinear pairs, the call either raises
\* DegenerateGeometryError or applies the identity rotation.
C5_DegenerateHandled ==
    (Called /\ SourceLoaded /\ DegenerateInput(call.point_pairs)) =>
        \/ CallRaised /\ call.end.exc = "DegenerateGeometryError"
        \/ FitReturned /\ call.end.T.R = Identity3

----------------------------------------------------------------------------
(* C6 *)

TargetsEqualSources(point_pairs) ==
    \A i \in 1..Len(point_pairs) : point_pairs[i][1] = point_pairs[i][2]

\* C6: when every target point equals its source point, the transform the
\* call computes has the identity rotation and the zero translation.
C6_IdentityOnEqualPairs ==
    (FitReturned /\ TargetsEqualSources(call.point_pairs)) =>
        (call.end.T.R = Identity3 /\ call.end.T.t = Zero3)

----------------------------------------------------------------------------
(* C7 *)

ProperRotations == {B : B \in {A \in Orthogonal : Det3(A) = 1}}

Cross(u, v) ==
    <<u[2] * v[3] - u[3] * v[2], u[3] * v[1] - u[1] * v[3], u[1] * v[2] - u[2] * v[1]>>
Collinear(pts) ==
    \A i \in 1..Len(pts), j \in 1..Len(pts) :
        Cross(VecSub(pts[i], pts[1]), VecSub(pts[j], pts[1])) = Zero3

\* Every target is R0 * source + t0.
RigidImage(point_pairs, R0, t0) ==
    \A i \in 1..Len(point_pairs) :
        point_pairs[i][2] = VecAdd(MatVec(R0, point_pairs[i][1]), t0)

\* The rigid motions <<R0, t0>> that carry every source point of a list of
\* non-collinear points onto its target point.
RigidMotions(point_pairs) ==
    {Rt \in {<<R0, VecSub(point_pairs[1][2], MatVec(R0, point_pairs[1][1]))>> :
                R0 \in ProperRotations} :
        /\ RigidImage(point_pairs, Rt[1], Rt[2])
        /\ ~Collinear(source_pts(point_pairs))}
RigidMotionTable == [q \in KabschInputs |-> {Rt : Rt \in RigidMotions(q)}]

\* C7: when the pairs are (p, R0 * p + t0) for a proper rotation R0, a
\* translation t0 and points p that are not collinear, the transform the
\* call computes is R0 and t0.
C7_RoundTrip ==
    FitReturned =>
        \A Rt \in RigidMotionTable[call.point_pairs] :
            call.end.T = [R |-> Rt[1], t |-> Rt[2], den |-> 1]

\* The quarter turn about z of the four unit-axis points, recovered.
C7_Witness ==
    /\ FitReturned
    /\ call.point_pairs = QuarterTurnScenario
    /\ call.end.T = [R |-> RotZ90, t |-> Zero3, den |-> 1]

\* A rotation together with a translation that is not zero, recovered.
C7_WitnessMoved ==
    /\ FitReturned
    /\ RigidImage(call.point_pairs, RotX90, <<1, 2, 3>>)
    /\ ~Collinear(source_pts(call.point_pairs))
    /\ call.end.T = [R |-> RotX90, t |-> <<1, 2, 3>>, den |-> 1]

----------------------------------------------------------------------------
(* C8 *)

\* The orders a list of n pairs can be put in.
Orders == [n \in 1..MaxPairs |->
              {g : g \in {f \in [1..n -> 1..n] :
                            \A i \in 1..n, j \in 1..n : f[i] = f[j] => i = j}}]
Reordered(point_pairs, f) == [i \in 1..Len(point_pairs) |-> point_pairs[f[i]]]

\* The list with every repetition of a pair dropped.
RECURSIVE Deduplicated(_)
Deduplicated(point_pairs) ==
    IF point_pairs = <<>> THEN <<>>
    ELSE LET n == Len(point_pairs)
             head == Deduplicated(SubSeq(point_pairs, 1, n - 1))
         IN  IF \E i \in 1..Len(head) : head[i] = point_pairs[n]
             THEN head
             ELSE Append(head, point_pairs[n])

\* The reorderings of each list, and the transforms the code computes for a
\* list and for every reordering of it alike.
ReorderingTable ==
    [q \in KabschInputs |-> {Reordered(q, f) : f \in Orders[Len(q)]}]
OrderFree(point_pairs) ==
    {T \in PointBasedTable[point_pairs] :
        \A r \in ReorderingTable[point_pairs] :
            r \in DOMAIN PointBasedTable /\ T \in PointBasedTable[r]}
OrderFreeTable == [q \in KabschInputs |-> {T : T \in OrderFree(q)}]

\* C8: the transform the call computes is one the code computes for every
\* reordering of the same pairs, and every pair of the list counts, a
\* repeated pair as often as it is repeated.
C8_OrderIrrelevant ==
    FitReturned =>
        /\ call.end.T \in OrderFreeTable[call.point_pairs]
        /\ call.end.result.pairs_used = Len(call.point_pairs)

\* A list that repeats a pair, fitted by a transform the code does not
\* compute for the list without the repetition.
C8_Witness ==
    /\ FitReturned
    /\ Deduplicated(call.point_pairs) # call.point_pairs
    /\ Deduplicated(call.point_pairs) \in DOMAIN PointBasedTable
    /\ call.end.T \notin PointBasedTable[Deduplicated(call.point_pairs)]

----------------------------------------------------------------------------
(* C10 *)

Finished(c) == thr[c].pc \in {"returned", "raised"}
BothFinished == thr # <<>> /\ \A c \in Callers : Finished(c)

\* What each mesh holds when each caller's transform has gone to that
\* caller's source mesh and nowhere else.
AsIfAlone ==
    \A s \in DOMAIN ms : \A id \in DOMAIN ms[s].geom :
        \A T \in {thr[c].T : c \in {k \in Callers : thr[k].pc = "returned"}} :
            LET applied == Cardinality({i \in 1..Len(ms[s].geom[id]) : ms[s].geom[id][i] = T})
                due == Cardinality({c \in Callers :
                          /\ thr[c].pc = "returned"
                          /\ thr[c].T = T
                          /\ thr[c].args.session = s
                          /\ thr[c].args.source_mesh_id = id})
            IN  applied = due

\* The meshes a caller names, in the session it names.
MeshesOf(c) ==
    {<<thr[c].args.session, id>> :
        id \in {thr[c].args.source_mesh_id, thr[c].args.target_mesh_id}}

\* The callers name no mesh in common and pass lists that share no pair.
DisjointInputs ==
    /\ MeshesOf("A") \cap MeshesOf("B") = {}
    /\ \A i \in 1..Len(thr["A"].args.point_pairs), j \in 1..Len(thr["B"].args.point_pairs) :
          thr["A"].args.point_pairs[i] # thr["B"].args.point_pairs[j]

\* C10: when two callers have run align_point_based concurrently with
\* disjoint inputs, without locking, each caller's transform has been
\* applied to its own source mesh and to no other, as if it had run alone.
C10_NoLockingNeeded ==
    (BothFinished /\ DisjointInputs) => AsIfAlone

----------------------------------------------------------------------------
(* The life of one session: meshes are loaded and deleted, selected,        *)
(* listed and aligned, one call after another.  call holds the latest       *)
(* invocation: its arguments, the MeshSet it found and how it ended.        *)

\* An alignment is run while the meshes of the session have been moved
\* less often than this.
MaxMoves == 1

\* How an invocation that computes no transform ends.
Return(m, result) == [m |-> m, outcome |-> "returned", result |-> result]

\* MeshlabSession.load_mesh(path) on MeshSet m: the id of the new mesh.
session_load_mesh(m) ==
    LET loaded == load_new_mesh(m) IN Return(loaded, loaded.cur)

\* MeshlabSession.delete_mesh(mesh_id) on MeshSet m.
delete_mesh(m, mesh_id) ==
    IF ~HasMesh(m, mesh_id)
    THEN {Raised(m, "PyMeshLabException")}
    ELSE {Return(d, "None") : d \in delete_current_mesh(set_current_mesh(m, mesh_id))}

\* MeshlabSession.mesh_info(mesh_id) for the mesh the call has selected: of
\* the statistics only mesh_id is the wrapper's own.
mesh_info(m) == [mesh_id |-> m.cur]

\* MeshlabSession.mesh_info(mesh_id) on MeshSet m: the mesh is selected
\* where an id is given; ms.current_mesh() raises when there is none.
session_mesh_info(m, arg) ==
    IF arg.given /\ ~HasMesh(m, arg.mesh_id)
    THEN Raised(m, "PyMeshLabException")
    ELSE LET selected == IF arg.given THEN set_current_mesh(m, arg.mesh_id) ELSE m
         IN  IF selected.cur = NoMesh
             THEN Raised(selected, "PyMeshLabException")
             ELSE Return(selected, mesh_info(selected))

\* MeshlabSession.save_mesh(path, mesh_id) on MeshSet m, path being in a
\* format the engine writes or not: the mesh is selected where an id is
\* given, and the current mesh is saved.
save_mesh(m, arg, writable) ==
    IF arg.given /\ ~HasMesh(m, arg.mesh_id)
    THEN Raised(m, "PyMeshLabException")
    ELSE LET selected == IF arg.given THEN set_current_mesh(m, arg.mesh_id) ELSE m
         IN  IF selected.cur = NoMesh \/ ~writable
             THEN Raised(selected, "PyMeshLabException")
             ELSE Return(selected, "None")

\* The filters of the engine that the repair steps call: each works on the
\* current mesh.  Two of them the engine runs on manifold meshes only.
MeshFilters ==
    {"meshing_remove_duplicate_faces", "meshing_remove_duplicate_vertices",
     "meshing_remove_unreferenced_vertices", "meshing_close_holes",
     "meshing_re_orient_faces_coherently", "compute_normal_for_point_clouds",
     "compute_normal_per_vertex",
     "meshing_remove_connected_component_by_face_number"}
ManifoldOnly == {"meshing_close_holes", "meshing_re_orient_faces_coherently"}

\* The matrix global registration settles on is the engine's business; the
\* model records only the base mesh it was computed against.
GlobalMatrix(basemesh) == [glob |-> basemesh]

\* ms.compute_matrix_by_mesh_global_alignment(basemesh, ...): every mesh
\* but the base mesh is moved.
compute_matrix_by_mesh_global_alignment(m, basemesh) ==
    [m EXCEPT !.geom = [id \in DOMAIN m.geom |->
                          IF HasMesh(m, id) /\ id # basemesh
                          THEN Append(m.geom[id], GlobalMatrix(basemesh))
                          ELSE m.geom[id]]]

\* Most elements one repair step removes, or holes it fills.
MaxRemoved == 1
Counts == 0..MaxRemoved

\* The keyword arguments of a call: none, or one of the arguments the
\* functions of the engine take.
NoKwargs == [k \in {} |-> 0]
NewCurrId(mesh_id) == [new_curr_id |-> mesh_id]
FileName(writable) == [file_name |-> [writable |-> writable]]
SomeMatrix == [matrix |-> "given"]
TransformMatrix == [transformmatrix |-> SomeMatrix]
IcpMeshes(referencemesh, sourcemesh) ==
    [referencemesh |-> referencemesh, sourcemesh |-> sourcemesh]
BaseMesh(basemesh) == [basemesh |-> basemesh]

\* A name the engine has no attribute of.
NoSuchFilter == "no_such_filter"

\* What a function of the engine returns: a dict, or a value that is none
\* (None, a number, a mesh).
Dict(value) == [dict |-> TRUE, value |-> value]
NotDict == [dict |-> FALSE]
EmptyDict == <<>>

\* ms.clear(): the set is as it was made, the id counter too.
clear(m) == MeshSet

\* The dict a filter of the current mesh returns: the numbers of holes
\* closed and of faces made for meshing_close_holes, the empty one for the
\* others.
filter_results(filter_name) ==
    IF filter_name = "meshing_close_holes"
    THEN {[closed_holes |-> d, new_faces |-> d] : d \in Counts}
    ELSE {EmptyDict}

\* fn(**kwargs), line 182, fn being the attribute filter_name of the engine
\* on MeshSet m, whose current mesh is manifold or is not: the MeshSet it
\* leaves and what it returns or raises.  The attributes are those the
\* package calls, create_sphere and clear.  A function called without an
\* argument it needs raises TypeError; the engine raises for a mesh it does
\* not hold, for a current mesh there is none of, for a file format it
\* does not write, and for a mesh a filter cannot work on.
engine_call(m, filter_name, kwargs, manifold) ==
    CASE filter_name = "set_current_mesh" ->
            IF DOMAIN kwargs # {"new_curr_id"} THEN {Raised(m, "TypeError")}
            ELSE IF ~HasMesh(m, kwargs.new_curr_id)
            THEN {Raised(m, "PyMeshLabException")}
            ELSE {Return(set_current_mesh(m, kwargs.new_curr_id), NotDict)}
      [] filter_name = "load_new_mesh" ->
            IF DOMAIN kwargs # {"file_name"} THEN {Raised(m, "TypeError")}
            ELSE {Return(load_new_mesh(m), NotDict)}
      [] filter_name = "save_current_mesh" ->
            IF DOMAIN kwargs # {"file_name"} THEN {Raised(m, "TypeError")}
            ELSE IF m.cur = NoMesh \/ ~kwargs.file_name.writable
            THEN {Raised(m, "PyMeshLabException")}
            ELSE {Return(m, NotDict)}
      [] filter_name = "create_sphere" /\ DOMAIN kwargs = {} ->
            {Return(load_new_mesh(m), Dict(EmptyDict))}
      [] filter_name = "clear" /\ DOMAIN kwargs = {} ->
            {Return(clear(m), NotDict)}
      [] filter_name = "delete_current_mesh" /\ DOMAIN kwargs = {} ->
            IF m.cur = NoMesh THEN {Raised(m, "PyMeshLabException")}
            ELSE {Return(d, NotDict) : d \in delete_current_mesh(m)}
      [] filter_name \in MeshFilters /\ DOMAIN kwargs = {} ->
            IF m.cur = NoMesh \/ (filter_name \in ManifoldOnly /\ ~manifold)
            THEN {Raised(m, "PyMeshLabException")}
            ELSE {Return(filtered(m, filter_name), Dict(d)) :
                     d \in filter_results(filter_name)}
      [] filter_name = "set_matrix" /\ DOMAIN kwargs = {"transformmatrix"} ->
            IF m.cur = NoMesh THEN {Raised(m, "PyMeshLabException")}
            ELSE {Return(set_matrix(m, kwargs.transformmatrix), Dict(EmptyDict))}
      [] filter_name = "compute_matrix_by_icp_between_meshes"
            /\ DOMAIN kwargs = {"referencemesh", "sourcemesh"} ->
            IF ~HasMesh(m, kwargs.referencemesh) \/ ~HasMesh(m, kwargs.sourcemesh)
            THEN {Raised(m, "PyMeshLabException")}
            ELSE {Return(compute_matrix_by_icp_between_meshes(
                            m, kwargs.referencemesh, kwargs.sourcemesh), NotDict)}
      [] filter_name = "compute_matrix_by_mesh_global_alignment"
            /\ DOMAIN kwargs = {"basemesh"} ->
            IF HasMesh(m, kwargs.basemesh)
            THEN {Return(compute_matrix_by_mesh_global_alignment(m, kwargs.basemesh),
                         NotDict)}
            ELSE {Raised(m, "PyMeshLabException"), Return(m, NotDict)}
      [] filter_name \in {"mesh_number", "current_mesh_id"} /\ DOMAIN kwargs = {} ->
            {Return(m, NotDict)}
      [] filter_name = "current_mesh" /\ DOMAIN kwargs = {} ->
            IF m.cur = NoMesh THEN {Raised(m, "PyMeshLabException")}
            ELSE {Return(m, NotDict)}

\* result if isinstance(result, dict) else {}, line 183.
dict_or_empty(result) == IF result.dict THEN result.value ELSE EmptyDict

\* MeshlabSession.apply_filter(filter_name, **kwargs) on MeshSet m, whose
\* current mesh is manifold or is not: getattr (line 181) finds the
\* engine's attribute of that name, whatever it is, or raises
\* AttributeError; the attribute is called with kwargs (line 182); a dict
\* it returns is returned, and {} for any other result (line 183).
apply_filter(m, filter_name, kwargs, manifold) ==
    IF filter_name = NoSuchFilter
    THEN {Raised(m, "AttributeError")}
    ELSE {IF r.outcome = "returned"
          THEN Return(r.m, dict_or_empty(r.result))
          ELSE r :
             r \in engine_call(m, filter_name, kwargs, manifold)}

\* The loop of list_meshes from mesh_id on: range(mesh_number()) is walked,
\* each number is selected as a mesh id and its info appended.
RECURSIVE list_meshes_from(_, _, _)
list_meshes_from(m, mesh_id, results) ==
    IF mesh_id >= mesh_number(m)
    THEN Return(m, results)
    ELSE IF ~HasMesh(m, mesh_id)
    THEN Raised(m, "PyMeshLabException")
    ELSE LET selected == set_current_mesh(m, mesh_id)
         IN  list_meshes_from(selected, mesh_id + 1, Append(results, mesh_info(selected)))

\* MeshlabSession.list_meshes() on MeshSet m: the selection is put back
\* after the loop, when the loop gets to its end.
list_meshes(m) ==
    LET r == list_meshes_from(m, 0, <<>>)
    IN  IF r.outcome = "returned" /\ mesh_number(m) > 0
        THEN [r EXCEPT !.m = set_current_mesh(r.m, m.cur)]
        ELSE r

\* The mesh_ids argument of global_align: None, or a list of ids.
NoneGiven == [given |-> FALSE]
Given(mesh_ids) == [given |-> TRUE, mesh_ids |-> mesh_ids]

\* The mesh_id argument: None, or an id.
GivenId(mesh_id) == [given |-> TRUE, mesh_id |-> mesh_id]

\* global_align(session, mesh_ids) on MeshSet m.  What the engine does with
\* a base mesh it does not hold is its own business: it may raise, or
\* return having moved nothing.
global_align(m, arg) ==
    LET mesh_ids == IF arg.given THEN arg.mesh_ids
                    ELSE [i \in 1..mesh_number(m) |-> i - 1]
        result == [aligned_mesh_ids |-> mesh_ids, global_rms_error |-> 0]
    IN  IF mesh_ids = <<>>
        THEN {Raised(m, "IndexError")}
        ELSE IF HasMesh(m, mesh_ids[1])
        THEN {Return(compute_matrix_by_mesh_global_alignment(m, mesh_ids[1]), result)}
        ELSE {Raised(m, "PyMeshLabException"), Return(m, result)}

\* The matrices frozen into the meshes of m with ids below id.
RECURSIVE MovesBelow(_, _)
MovesBelow(m, id) ==
    IF id = 0 THEN 0 ELSE MovesBelow(m, id - 1) + Len(m.geom[id - 1])

\* Fewer than MaxMoves matrices have been frozen into the meshes of m yet.
CanMove(m) == MovesBelow(m, MaxLoads) < MaxMoves

\* The invocation as call records it.
Invocation(op, s, args, r) ==
    [op |-> op, session |-> s, args |-> args, before |-> ms[s],
     end |-> [f \in DOMAIN r \ {"m"} |-> r[f]]]

\* The ids a caller of the session may pass, and the lists of them a
\* caller may pass to global_align.
SessionMeshIds == 0..MaxLoads
MeshIdLists == SeqsUpTo(SessionMeshIds, 2)

InitSession ==
    /\ ms = [s \in {"session"} |-> MeshSet]
    /\ call = NoCall
    /\ thr = <<>>
    /\ hist = [s \in {"session"} |-> NoHistory]
    /\ disk = NoDisk

\* session.load_mesh(path), of a file the engine can read.
LoadMesh(s) ==
    /\ hist[s].made < MaxLoads
    /\ LET r == session_load_mesh(ms[s])
       IN  /\ ms' = [ms EXCEPT ![s] = r.m]
           /\ call' = Invocation("load_mesh", s, <<>>, r)
    /\ hist' = [hist EXCEPT ![s].loads = @ + 1, ![s].made = @ + 1]
    /\ UNCHANGED <<thr, disk>>

\* session.delete_mesh(mesh_id)
DeleteMesh(s) ==
    /\ \E mesh_id \in SessionMeshIds : \E r \in delete_mesh(ms[s], mesh_id) :
          /\ ms' = [ms EXCEPT ![s] = r.m]
          /\ call' = Invocation("delete_mesh", s, <<mesh_id>>, r)
          /\ hist' = IF r.outcome = "returned"
                     THEN [hist EXCEPT ![s].deletes = @ + 1]
                     ELSE hist
    /\ UNCHANGED <<thr, disk>>

\* session.set_active_mesh(mesh_id)
SetActiveMesh(s) ==
    /\ \E mesh_id \in SessionMeshIds :
          LET r == IF HasMesh(ms[s], mesh_id)
                   THEN Return(set_current_mesh(ms[s], mesh_id), "None")
                   ELSE Raised(ms[s], "PyMeshLabException")
          IN  /\ ms' = [ms EXCEPT ![s] = r.m]
              /\ call' = Invocation("set_active_mesh", s, <<mesh_id>>, r)
    /\ UNCHANGED <<thr, hist, disk>>

\* session.list_meshes()
ListMeshes(s) ==
    /\ LET r == list_meshes(ms[s])
       IN  /\ ms' = [ms EXCEPT ![s] = r.m]
           /\ call' = Invocation("list_meshes", s, <<>>, r)
    /\ UNCHANGED <<thr, hist, disk>>

\* align_icp(session, source_mesh_id, target_mesh_id,
\* max_iterations=maxiternum)
AlignIcp(s) ==
    /\ CanMove(ms[s])
    /\ \E source_mesh_id \in SessionMeshIds, target_mesh_id \in SessionMeshIds,
          maxiternum \in {5, max_iterations} :
          LET r == align_icp(ms[s], source_mesh_id, target_mesh_id, maxiternum)
          IN  /\ ms' = [ms EXCEPT ![s] = r.m]
              /\ call' = Invocation("align_icp", s,
                                    <<source_mesh_id, target_mesh_id, maxiternum>>, r)
    /\ UNCHANGED <<thr, hist, disk>>


\* global_align(session, mesh_ids)
GlobalAlign(s) ==
    /\ CanMove(ms[s])
    /\ \E arg \in {NoneGiven} \cup {Given(l) : l \in MeshIdLists} :
          \E r \in global_align(ms[s], arg) :
             /\ ms' = [ms EXCEPT ![s] = r.m]
             /\ call' = Invocation("global_align", s, arg, r)
    /\ UNCHANGED <<thr, hist, disk>>

\* session.mesh_info(mesh_id)
MeshInfo(s) ==
    /\ \E arg \in {NoneGiven} \cup {GivenId(id) : id \in SessionMeshIds} :
          LET r == session_mesh_info(ms[s], arg)
          IN  /\ ms' = [ms EXCEPT ![s] = r.m]
              /\ call' = Invocation("mesh_info", s, arg, r)
    /\ UNCHANGED <<thr, hist, disk>>

\* session.save_mesh(path, mesh_id): the file at path holds a mesh then.
SaveMesh(s) ==
    /\ \E arg \in {NoneGiven} \cup {GivenId(id) : id \in SessionMeshIds},
          writable \in BOOLEAN :
          LET r == save_mesh(ms[s], arg, writable)
          IN  /\ ms' = [ms EXCEPT ![s] = r.m]
              /\ call' = Invocation("save_mesh", s, arg, r)
              /\ disk' = IF r.outcome = "returned" THEN <<"mesh">> ELSE disk
    /\ UNCHANGED <<thr, hist>>

\* The apply_filter calls of a session's caller: a name with the
\* keyword arguments passed.
FilterCalls ==
    {<<filter_name, NoKwargs>> :
        filter_name \in {"create_sphere", "delete_current_mesh", "clear",
                         "meshing_remove_duplicate_vertices", "meshing_close_holes",
                         "mesh_number", "set_current_mesh", "load_new_mesh",
                         NoSuchFilter}}
    \cup {<<"set_current_mesh", NewCurrId(id)>> : id \in SessionMeshIds}
    \cup {<<"load_new_mesh", FileName(TRUE)>>,
          <<"save_current_mesh", FileName(FALSE)>>,
          <<"save_current_mesh", FileName(TRUE)>>,
          <<"set_matrix", TransformMatrix>>,
          <<"compute_matrix_by_icp_between_meshes", IcpMeshes(0, 1)>>,
          <<"compute_matrix_by_mesh_global_alignment", BaseMesh(0)>>}

\* The engine functions that make a mesh, and those that move one.
Makers == {"create_sphere", "load_new_mesh"}
Movers ==
    MeshFilters \cup {"set_matrix", "compute_matrix_by_icp_between_meshes",
                      "compute_matrix_by_mesh_global_alignment"}

\* session.apply_filter(filter_name, **kwargs); the file save_current_mesh
\* is given holds a mesh when the engine has written it.
ApplyFilter(s) ==
    /\ \E c \in FilterCalls, manifold \in BOOLEAN :
          /\ c[1] \in Makers => hist[s].made < MaxLoads
          /\ c[1] \in Movers => CanMove(ms[s])
          /\ c[1] \notin ManifoldOnly => manifold
          /\ \E r \in apply_filter(ms[s], c[1], c[2], manifold) :
                /\ ms' = [ms EXCEPT ![s] = r.m]
                /\ call' = Invocation("apply_filter", s, c, r)
                /\ hist' = [hist EXCEPT ![s].raw = TRUE,
                                        ![s].made =
                                            IF c[1] \in Makers /\ r.outcome = "returned"
                                            THEN @ + 1 ELSE @]
                /\ disk' = IF c[1] = "save_current_mesh" /\ r.outcome = "returned"
                           THEN <<"mesh">> ELSE disk
    /\ UNCHANGED thr

NextSession ==
    \/ \E s \in DOMAIN ms : LoadMesh(s)
    \/ \E s \in DOMAIN ms : DeleteMesh(s)
    \/ \E s \in DOMAIN ms : SetActiveMesh(s)
    \/ \E s \in DOMAIN ms : ListMeshes(s)
    \/ \E s \in DOMAIN ms : AlignIcp(s)
    \/ \E s \in DOMAIN ms : GlobalAlign(s)
    \/ \E s \in DOMAIN ms : MeshInfo(s)
    \/ \E s \in DOMAIN ms : SaveMesh(s)
    \/ \E s \in DOMAIN ms : ApplyFilter(s)

SpecSession == InitSession /\ [][NextSession]_vars

\* The session of the latest invocation has been reached by the calls of
\* the wrapper alone: no engine function has been called on it by name.
NoRawCall == ~hist[call.session].raw

\* The latest invocation was of op, and it returned.
Did(op) == call.op = op /\ call.end.outcome = "returned"
\* The meshes the session holds now.
Held == ms[call.session].ids

----------------------------------------------------------------------------
(* Batch processing (batch.py).  A file name is the tuple of its            *)
(* characters, a path the tuple of its parts below the directory it is      *)
(* relative to.                                                             *)

\* Most entries in the input tree.
MaxFiles == 3

\* The characters of the names, in code-point order.
Alphabet ==
    <<".", "3", "B", "L", "P", "Y", "a", "b", "c", "d", "e", "f", "g", "j",
      "l", "o", "p", "r", "s", "t", "u", "w", "x", "y", "z">>
Ord(c) == CHOOSE i \in 1..Len(Alphabet) : Alphabet[i] = c

\* str.lower(), character by character.
LowerChar(c) ==
    CASE c = "B" -> "b" [] c = "L" -> "l" [] c = "P" -> "p" [] c = "Y" -> "y"
      [] OTHER -> c
lower(name) == [i \in 1..Len(name) |-> LowerChar(name[i])]

\* str.rfind("."), counting from 1; 0 when there is no dot.
RFindDot(name) ==
    IF \E i \in 1..Len(name) : name[i] = "."
    THEN CHOOSE i \in 1..Len(name) :
            name[i] = "." /\ \A j \in (i + 1)..Len(name) : name[j] # "."
    ELSE 0

\* PurePath.suffix of a path whose last part is name: from the last dot on,
\* unless that dot opens or closes the name.
suffix(name) ==
    LET i == RFindDot(name)
    IN  IF 1 < i /\ i < Len(name) THEN SubSeq(name, i, Len(name)) ELSE <<>>

\* PurePath.with_suffix(output_format) on a relative path.
with_suffix(path, output_format) ==
    LET name == path[Len(path)]
        stem == SubSeq(name, 1, Len(name) - Len(suffix(name)))
    IN  [path EXCEPT ![Len(path)] = stem \o output_format]

MESH_EXTENSIONS ==
    {<<".", "p", "l", "y">>, <<".", "o", "b", "j">>, <<".", "s", "t", "l">>,
     <<".", "o", "f", "f">>, <<".", "x", "y", "z">>, <<".", "p", "t", "s">>,
     <<".", "3", "d", "s">>, <<".", "d", "a", "e">>, <<".", "x", "3", "d">>,
     <<".", "w", "r", "l">>, <<".", "g", "l", "b">>, <<".", "g", "l", "t", "f">>}

\* a < b for str: by code point, a proper prefix first.
RECURSIVE StrLess(_, _)
StrLess(a, b) ==
    IF b = <<>> THEN FALSE
    ELSE IF a = <<>> THEN TRUE
    ELSE IF a[1] # b[1] THEN Ord(a[1]) < Ord(b[1])
    ELSE StrLess(Tail(a), Tail(b))

\* p < q for paths: part by part.
RECURSIVE PathLess(_, _)
PathLess(p, q) ==
    IF q = <<>> THEN FALSE
    ELSE IF p = <<>> THEN TRUE
    ELSE IF p[1] # q[1] THEN StrLess(p[1], q[1])
    ELSE PathLess(Tail(p), Tail(q))

\* sorted(paths)
RECURSIVE sorted(_)
sorted(paths) ==
    IF paths = {} THEN <<>>
    ELSE LET first == CHOOSE p \in paths : \A q \in paths \ {p} : PathLess(p, q)
         IN  <<first>> \o sorted(paths \ {first})

\* Path.is_file() of an entry of the tree.
is_file(e) == e.kind = "file"
\* Every entry of the tree, at any depth, taken for a direct child.
iterdir_descending(tree) == tree
\* Path(directory).iterdir(): the direct children; rglob("*"): all entries.
iterdir(tree) == {e \in tree : Len(e.path) = 1}
rglob(tree) == tree

\* _iter_mesh_files(directory)
iter_mesh_files(tree) ==
    sorted({e.path : e \in {c \in iterdir(tree) :
                is_file(c) /\ lower(suffix(c.path[Len(c.path)])) \in MESH_EXTENSIONS}})

\* The file list of batch_process, lines 71-77.
mesh_files(tree, recursive) ==
    IF recursive
    THEN sorted({e.path : e \in {c \in rglob(tree) :
                is_file(c) /\ lower(suffix(c.path[Len(c.path)])) \in MESH_EXTENSIONS}})
    ELSE iter_mesh_files(tree)

\* What the file at path holds.
ContentAt(tree, path) == (CHOOSE e \in tree : e.path = path).content

\* The callables passed as operation: one that does nothing, and one that
\* raises RuntimeError("intentional failure").
Operations == {"noop", "failing_op"}

\* The message of the exception operation(session) raises, "none" if it
\* returns.
operation_raises(operation) ==
    IF operation = "failing_op" THEN "intentional failure" ELSE "none"

\* The formats the engine can write a mesh in.
Writable == MESH_EXTENSIONS

\* The suffixes PurePath.with_suffix takes, line 82: none at all, or a dot
\* and more; any other raises ValueError.
valid_suffix(output_format) ==
    \/ output_format = <<>>
    \/ Len(output_format) > 1 /\ output_format[1] = "."

\* What output_dir holds is the files written and the directories made, as
\* paths below it.  The directories above such a path.
parents(path) == {SubSeq(path, 1, k) : k \in 1..(Len(path) - 1)}

\* out_file.parent.mkdir(parents=True, exist_ok=True), lines 83 and 228:
\* the exception it raises, "none" if it makes the directories.  It raises
\* FileExistsError when out_file.parent is a file, NotADirectoryError when a
\* directory further up is one.
mkdir_raises(out, out_file) ==
    IF parents(out_file) \cap out.files = {} THEN "none"
    ELSE IF SubSeq(out_file, 1, Len(out_file) - 1) \in out.files
    THEN "FileExistsError"
    ELSE "NotADirectoryError"
mkdir(out, out_file) == [out EXCEPT !.dirs = @ \cup parents(out_file)]

\* Whether the engine writes out_file: it cannot save in a format it does
\* not know, nor under a name a directory has.
saves(out, out_file, output_format) ==
    output_format \in Writable /\ out_file \notin out.dirs

\* The body of the try block for one file, lines 87-91, raised being the
\* message of the exception operation(session) raises, "none" if it
\* returns, and saved telling whether the engine writes the output file:
\* the message of the exception that ends the block, or "none".  The engine
\* cannot load a file that holds no mesh; the operation is called between
\* loading and saving.
try_ends(content, raised, saved) ==
    IF content # "mesh" THEN "load_new_mesh failed"
    ELSE IF raised # "none" THEN raised
    ELSE IF ~saved THEN "save_current_mesh failed"
    ELSE "none"

\* The record of lines 85-94 for a try block that ended with exc.
record(mesh_file, output_format, exc) ==
    LET out_file == with_suffix(mesh_file, output_format)
        base == [input |-> mesh_file, output |-> out_file]
    IN  IF exc = "none"
        THEN [f \in {"input", "output", "status"} |->
                IF f = "status" THEN "ok" ELSE base[f]]
        ELSE [f \in {"input", "output", "status", "error"} |->
                IF f = "status" THEN "error"
                ELSE IF f = "error" THEN exc
                ELSE base[f]]

\* One pass of the loop of batch_process, lines 81-96, out being what
\* output_dir holds and raised what the operation does on this file's
\* mesh.  Lines 82 and 83 stand ahead of the try: an exception of
\* with_suffix or of mkdir leaves the loop and batch_process.  Any other
\* pass appends a record; the directories above the output file are made
\* whether or not the try block writes the file.
process_file(tree, mesh_file, raised, output_format, out) ==
    IF ~valid_suffix(output_format)
    THEN [outcome |-> "raised", exc |-> "ValueError", out |-> out]
    ELSE LET out_file == with_suffix(mesh_file, output_format)
         IN  IF mkdir_raises(out, out_file) # "none"
             THEN [outcome |-> "raised", exc |-> mkdir_raises(out, out_file),
                   out |-> out]
             ELSE LET made == mkdir(out, out_file)
                      exc == try_ends(ContentAt(tree, mesh_file), raised,
                                      saves(made, out_file, output_format))
                  IN  [outcome |-> "appended",
                       record |-> record(mesh_file, output_format, exc),
                       out |-> IF exc = "none"
                               THEN [made EXCEPT !.files = @ \cup {out_file}]
                               ELSE made]

\* The loop of batch_process, lines 79-98, over the files still to go,
\* raised[i] being what the operation does on the i-th of them and results
\* the records appended so far: how batch_process ends, the records
\* appended, and what output_dir holds then.
RECURSIVE batch_loop(_, _, _, _, _, _)
batch_loop(tree, files, raised, output_format, out, results) ==
    IF files = <<>>
    THEN [outcome |-> "returned", records |-> results, out |-> out]
    ELSE LET pass == process_file(tree, files[1], raised[1], output_format, out)
         IN  IF pass.outcome = "raised"
             THEN [outcome |-> "raised", exc |-> pass.exc, records |-> results,
                   out |-> pass.out]
             ELSE batch_loop(tree, Tail(files), Tail(raised), output_format,
                             pass.out, Append(results, pass.record))

\* How a batch function ends for its caller: the list it returns, or the
\* exception that left its loop.
batch_end(loop) ==
    IF loop.outcome = "returned"
    THEN [outcome |-> "returned", result |-> loop.records]
    ELSE [outcome |-> "raised", exc |-> loop.exc]

\* The names of the model's input trees.
TopNames ==
    {<<"a", ".", "p", "l", "y">>, <<"B", ".", "P", "L", "Y">>,
     <<"a", ".", "o", "b", "j">>, <<"c", ".", "t", "x", "t">>,
     <<".", "p", "l", "y">>, <<"s", "u", "b", ".", "s", "t", "l">>,
     <<"s", "u", "b", ".", "o", "b", "j">>}
SubDir == <<"s", "u", "b", ".", "p", "l", "y">>
SubNames == {<<"a", ".", "p", "l", "y">>, <<"z", ".", "s", "t", "l">>}
DirName == <<"d", ".", "p", "l", "y">>

\* The entries a tree is made of: files that hold a mesh or do not, at the
\* top or in the sub-directory, and a directory named like a mesh file.
\* The sub-directory has the name the output file of two of the top files
\* gets in one of the formats.
Entries ==
    {[path |-> <<n>>, kind |-> "file", content |-> c] :
        n \in TopNames, c \in {"mesh", "garbage"}}
    \cup {[path |-> <<SubDir, n>>, kind |-> "file", content |-> c] :
        n \in SubNames, c \in {"mesh", "garbage"}}
    \cup {[path |-> <<DirName>>, kind |-> "dir", content |-> "none"]}

\* The input trees: at most MaxFiles entries, no path twice.
RECURSIVE TreesOf(_)
TreesOf(k) ==
    IF k = 0 THEN {{}}
    ELSE LET smaller == TreesOf(k - 1)
         IN  smaller \cup
             {t \cup {e} : t \in smaller,
                           e \in Entries}
Trees ==
    {t \in TreesOf(MaxFiles) :
        \A e1 \in t, e2 \in t : e1.path = e2.path => e1 = e2}

\* The output formats callers pass: one the engine writes, one it does
\* not, and one that is no suffix.
Formats ==
    {<<".", "p", "l", "y">>, <<".", "t", "x", "t">>, <<"p", "l", "y">>}

\* A session of the batch, with the file each of its meshes was loaded
\* from, in the order of the mesh ids.  MeshlabSession(): none.
MeshlabSession == [m |-> MeshSet, loaded |-> <<>>]

\* session.load_mesh(path), of a file that holds a mesh.
loaded_into(session, path) ==
    [m |-> load_new_mesh(session.m), loaded |-> Append(session.loaded, path)]

\* The session of the file before, taken over for the next file.
kept_session(previous) == previous

\* Line 87, session = MeshlabSession(): whatever the variable held from the
\* file before is dropped.
fresh_session(previous) == MeshlabSession

\* The sessions the operation is called with in the loop of batch_process,
\* lines 80-96, session being the loop's variable as the file before left
\* it.  The operation is not called for a file that fails to load.
RECURSIVE operation_calls(_, _, _)
operation_calls(tree, files, session) ==
    IF files = <<>> THEN <<>>
    ELSE LET fresh == fresh_session(session)
         IN  IF ContentAt(tree, files[1]) = "mesh"
             THEN LET loaded == loaded_into(fresh, files[1])
                  IN  <<loaded>> \o operation_calls(tree, Tail(files), loaded)
             ELSE operation_calls(tree, Tail(files), fresh)

\* The path left as it was spelled.
unresolved(path) == path

\* The part "." of a path, and Path.resolve() on a path below the input
\* directory: the "." parts go.
Dot == <<".">>
resolve(path) == SelectSeq(path, LAMBDA part : part # Dot)

\* The target_mesh argument of batch_align: a path below the input
\* directory, or a file elsewhere that holds a mesh or does not.
Inside(path) == [root |-> "input_dir", path |-> path]
Elsewhere(content) ==
    [root |-> "elsewhere", path |-> <<<<"t", ".", "p", "l", "y">>>>,
     content |-> content]

\* mesh_file.resolve() == target_path.resolve(), line 223.
is_target(mesh_file, target) ==
    target.root = "input_dir" /\ resolve(mesh_file) = resolve(target.path)

\* What the target file holds: nothing the engine can load when there is
\* no such file.
target_content(tree, target) ==
    IF target.root = "elsewhere" THEN target.content
    ELSE IF \E e \in tree : e.path = resolve(target.path) /\ is_file(e)
    THEN ContentAt(tree, resolve(target.path))
    ELSE "missing"

\* One file of batch_align that is not the target, lines 230-252, saved
\* telling whether the engine writes the output file: the record, the
\* session as the try block left it, and what was saved.
align_one(tree, mesh_file, target, output_format, icp_max_iterations, saved) ==
    LET out_file == with_suffix(mesh_file, output_format)
        base == [input |-> mesh_file, output |-> out_file]
        failed(msg, session) ==
            [record |-> [f \in {"input", "output", "status", "error"} |->
                            IF f = "status" THEN "error"
                            ELSE IF f = "error" THEN msg
                            ELSE base[f]],
             session |-> session,
             saved |-> <<>>]
        session == MeshlabSession
    IN  IF target_content(tree, target) # "mesh"
        THEN failed("load_new_mesh failed", session)
        ELSE LET with_target == loaded_into(session, <<"target">>)
             IN  IF ContentAt(tree, mesh_file) # "mesh"
                 THEN failed("load_new_mesh failed", with_target)
                 ELSE LET with_source == loaded_into(with_target, mesh_file)
                          source_id == with_source.m.cur
                          r == align_icp(with_source.m, source_id, 0,
                                         icp_max_iterations)
                          aligned == [with_source EXCEPT !.m = r.m]
                      IN  IF r.outcome = "raised"
                          THEN failed(r.exc, aligned)
                          ELSE IF ~saved
                          THEN failed("save_current_mesh failed",
                                      [aligned EXCEPT !.m =
                                          set_current_mesh(aligned.m, source_id)])
                          ELSE [record |->
                                   [f \in {"input", "output", "status", "alignment"} |->
                                       IF f = "status" THEN "ok"
                                       ELSE IF f = "alignment" THEN r.result
                                       ELSE base[f]],
                                session |-> [aligned EXCEPT !.m =
                                               set_current_mesh(aligned.m, source_id)],
                                saved |-> <<[output |-> out_file,
                                             mesh_id |-> source_id]>>]

\* The loop of batch_align, lines 220-254, over the files still to go, out
\* being what output_dir holds and runs what the passes before have left:
\* how batch_align ends, the passes made, and what output_dir holds then.
\* The target is passed over; for any other file lines 227 and 228 stand
\* ahead of the try, as in batch_process.
RECURSIVE align_loop(_, _, _, _, _, _, _)
align_loop(tree, files, target, output_format, icp_max_iterations, out, runs) ==
    IF files = <<>>
    THEN [outcome |-> "returned", runs |-> runs, out |-> out]
    ELSE IF is_target(files[1], target)
    THEN align_loop(tree, Tail(files), target, output_format,
                    icp_max_iterations, out, runs)
    ELSE IF ~valid_suffix(output_format)
    THEN [outcome |-> "raised", exc |-> "ValueError", runs |-> runs, out |-> out]
    ELSE LET out_file == with_suffix(files[1], output_format)
         IN  IF mkdir_raises(out, out_file) # "none"
             THEN [outcome |-> "raised", exc |-> mkdir_raises(out, out_file),
                   runs |-> runs, out |-> out]
             ELSE LET made == mkdir(out, out_file)
                      run == align_one(tree, files[1], target, output_format,
                                       icp_max_iterations,
                                       saves(made, out_file, output_format))
                  IN  align_loop(tree, Tail(files), target, output_format,
                                 icp_max_iterations,
                                 IF run.saved # <<>>
                                 THEN [made EXCEPT !.files = @ \cup {out_file}]
                                 ELSE made,
                                 Append(runs, run))

\* How batch_align ends for its caller.
align_end(loop) ==
    IF loop.outcome = "returned"
    THEN [outcome |-> "returned",
          result |-> [i \in 1..Len(loop.runs) |-> loop.runs[i].record]]
    ELSE [outcome |-> "raised", exc |-> loop.exc]

\* The targets callers pass: an entry of the tree, spelled plainly or with
\* a "." part ahead, a path the tree lacks, or a file elsewhere.
Targets(tree) ==
    {Inside(e.path) : e \in tree}
    \cup {Inside(<<Dot>> \o e.path) : e \in tree}
    \cup {Inside(<<<<"z", ".", "s", "t", "l">>>>)}
    \cup {Elsewhere(c) : c \in {"mesh", "garbage"}}

InitBatch ==
    /\ ms = <<>>
    /\ call = NoCall
    /\ thr = <<>>
    /\ hist = <<>>
    /\ disk \in {[input |-> t, output |-> {}, dirs |-> {}] : t \in Trees}

\* What output_dir holds on disk d.
output_dir(d) == [files |-> d.output, dirs |-> d.dirs]

\* batch_process(input_dir, output_dir, operation, output_format,
\* recursive=recursive), from the call to the return or to the exception
\* that leaves it.  sessions are the sessions the operation was called
\* with, one for each file the loop got to and loaded.
batch_process ==
    /\ call.op = "none"
    /\ \E operation \in Operations, output_format \in Formats, recursive \in BOOLEAN :
          LET files == mesh_files(disk.input, recursive)
              loop == batch_loop(disk.input, files,
                                 [i \in 1..Len(files) |-> operation_raises(operation)],
                                 output_format, output_dir(disk), <<>>)
          IN  /\ call' = [op |-> "batch_process",
                          operation |-> operation,
                          output_format |-> output_format,
                          recursive |-> recursive,
                          sessions |-> operation_calls(disk.input,
                                          SubSeq(files, 1, Len(loop.records)),
                                          MeshlabSession),
                          end |-> batch_end(loop)]
              /\ disk' = [disk EXCEPT !.output = loop.out.files,
                                      !.dirs = loop.out.dirs]
    /\ UNCHANGED <<ms, thr, hist>>

\* batch_align(input_dir, output_dir, target_mesh, output_format,
\* icp_max_iterations=icp_max_iterations, recursive=recursive), from the
\* call to the return or to the exception that leaves it.  The iterations
\* asked for are not the default, which the batch_align tool of the server
\* passes.
batch_align ==
    /\ call.op = "none"
    /\ \E target \in Targets(disk.input), output_format \in Formats,
          recursive \in BOOLEAN, icp_max_iterations \in {5} :
          LET files == mesh_files(disk.input, recursive)
              loop == align_loop(disk.input, files, target, output_format,
                                 icp_max_iterations, output_dir(disk), <<>>)
          IN  /\ call' = [op |-> "batch_align",
                          target |-> target,
                          output_format |-> output_format,
                          recursive |-> recursive,
                          icp_max_iterations |-> icp_max_iterations,
                          runs |-> loop.runs,
                          end |-> align_end(loop)]
              /\ disk' = [disk EXCEPT !.output = loop.out.files,
                                      !.dirs = loop.out.dirs]
    /\ UNCHANGED <<ms, thr, hist>>

NextBatch == batch_process \/ batch_align

SpecBatch == InitBatch /\ [][NextBatch]_vars

----------------------------------------------------------------------------
(* Mesh repair (repair.py).  A filter the engine runs on the current mesh   *)
(* is recorded in the mesh's geometry, after the matrices frozen into it.   *)

\* The head of every repair function: ms.set_current_mesh(mesh_id) where
\* mesh_id is given, which raises for a mesh the set does not hold, and
\* ms.current_mesh(), or the filter, which raises when the set has no
\* current mesh.  The MeshSet the function goes on with, none if it raises
\* here.
selected_for(m, arg) ==
    IF arg.given /\ ~HasMesh(m, arg.mesh_id) THEN {}
    ELSE LET selected == IF arg.given THEN set_current_mesh(m, arg.mesh_id) ELSE m
         IN  IF selected.cur = NoMesh THEN {} ELSE {selected}

\* remove_duplicate_faces(session, mesh_id)
remove_duplicate_faces(m, arg) ==
    IF selected_for(m, arg) = {}
    THEN {Raised(m, "PyMeshLabException")}
    ELSE {Return(filtered(selected, "meshing_remove_duplicate_faces"),
                 [removed_faces |-> d]) :
             selected \in selected_for(m, arg), d \in Counts}

\* remove_duplicate_vertices(session, mesh_id)
remove_duplicate_vertices(m, arg) ==
    IF selected_for(m, arg) = {}
    THEN {Raised(m, "PyMeshLabException")}
    ELSE {Return(filtered(filtered(selected, "meshing_remove_duplicate_vertices"),
                          "meshing_remove_unreferenced_vertices"),
                 [removed_vertices |-> d]) :
             selected \in selected_for(m, arg), d \in Counts}

\* fill_holes(session, mesh_id, max_hole_size=...); the engine closes
\* holes of manifold meshes only, and raises when the mesh has been
\* selected.
fill_holes(m, arg, manifold) ==
    IF selected_for(m, arg) = {}
    THEN {Raised(m, "PyMeshLabException")}
    ELSE IF ~manifold
    THEN {Raised(selected, "PyMeshLabException") : selected \in selected_for(m, arg)}
    ELSE {Return(filtered(selected, "meshing_close_holes"),
                 [holes_filled |-> d]) :
             selected \in selected_for(m, arg), d \in Counts}

\* fix_normals(session, mesh_id); the engine orients the faces of manifold
\* meshes only, and the normals are computed by the one filter or the
\* other as the mesh has faces or has none.
fix_normals(m, arg, manifold) ==
    IF selected_for(m, arg) = {}
    THEN {Raised(m, "PyMeshLabException")}
    ELSE IF ~manifold
    THEN {Raised(selected, "PyMeshLabException") : selected \in selected_for(m, arg)}
    ELSE {Return(filtered(filtered(selected, "meshing_re_orient_faces_coherently"),
                          compute_normal),
                 [status |-> "ok"]) :
             selected \in selected_for(m, arg),
             compute_normal \in {"compute_normal_for_point_clouds",
                                 "compute_normal_per_vertex"}}

\* remove_isolated_pieces(session, mesh_id, min_component_size=...)
remove_isolated_pieces(m, arg) ==
    IF selected_for(m, arg) = {}
    THEN {Raised(m, "PyMeshLabException")}
    ELSE {Return(filtered(selected,
                          "meshing_remove_connected_component_by_face_number"),
                 [removed_faces |-> d]) :
             selected \in selected_for(m, arg), d \in Counts}

\* The keys of every step, whatever the flags.
every_step(flags) ==
    <<"duplicate_faces", "duplicate_vertices", "hole_filling", "normals",
      "isolated_pieces">>

\* The steps with the normals put right before the holes are filled.
normals_first(flags) ==
    (IF flags.reorient_normals THEN <<"normals">> ELSE <<>>)
    \o (IF flags.remove_duplicates
        THEN <<"duplicate_faces", "duplicate_vertices">> ELSE <<>>)
    \o (IF flags.fill_mesh_holes THEN <<"hole_filling">> ELSE <<>>)
    \o (IF flags.remove_small_components THEN <<"isolated_pieces">> ELSE <<>>)

\* The keys repair_mesh assigns, in the order of lines 210-223.
enabled_steps(flags) ==
    (IF flags.remove_duplicates
     THEN <<"duplicate_faces", "duplicate_vertices">> ELSE <<>>)
    \o (IF flags.fill_mesh_holes THEN <<"hole_filling">> ELSE <<>>)
    \o (IF flags.reorient_normals THEN <<"normals">> ELSE <<>>)
    \o (IF flags.remove_small_components THEN <<"isolated_pieces">> ELSE <<>>)

\* The call behind each key, lines 210-223: none passes a mesh_id.
step_runs(m, key, manifold) ==
    CASE key = "duplicate_faces" -> remove_duplicate_faces(m, NoneGiven)
      [] key = "duplicate_vertices" -> remove_duplicate_vertices(m, NoneGiven)
      [] key = "hole_filling" -> fill_holes(m, NoneGiven, manifold)
      [] key = "normals" -> fix_normals(m, NoneGiven, manifold)
      [] key = "isolated_pieces" -> remove_isolated_pieces(m, NoneGiven)

\* Lines 210-225 from the step of steps[1] on, results being the dict so far.
RECURSIVE run_steps(_, _, _, _)
run_steps(m, steps, results, manifold) ==
    IF steps = <<>>
    THEN {Return(m, results)}
    ELSE UNION {IF r.outcome = "raised"
                THEN {r}
                ELSE run_steps(r.m, Tail(steps),
                               [k \in DOMAIN results \cup {steps[1]} |->
                                   IF k = steps[1] THEN r.result ELSE results[k]],
                               manifold) :
                   r \in step_runs(m, steps[1], manifold)}

\* The repair of whichever mesh is current, mesh_id left aside.
repair_current_mesh(m, arg, flags, manifold) ==
    run_steps(m, enabled_steps(flags), <<>>, manifold)

\* repair_mesh(session, mesh_id, remove_duplicates=..., ...) on MeshSet m
\* whose meshes are manifold or are not.
repair_mesh(m, arg, flags, manifold) ==
    IF arg.given /\ ~HasMesh(m, arg.mesh_id)
    THEN {Raised(m, "PyMeshLabException")}
    ELSE run_steps(IF arg.given THEN set_current_mesh(m, arg.mesh_id) ELSE m,
                   enabled_steps(flags), <<>>, manifold)

\* The flags a caller may pass.
Flags ==
    [remove_duplicates : BOOLEAN, fill_mesh_holes : BOOLEAN,
     reorient_normals : BOOLEAN, remove_small_components : BOOLEAN]

\* The _op of batch_repair, lines 162-163, on the session of one file, the
\* file's mesh being manifold or not: the message of the exception
\* repair_mesh(session, **repair_kwargs) raises, which names the filter the
\* engine refused, or "none".
repair_op(flags, manifold) ==
    IF \A r \in repair_mesh(load_new_mesh(MeshSet), NoneGiven, flags, manifold) :
          r.outcome = "returned"
    THEN "none"
    ELSE IF flags.fill_mesh_holes THEN "meshing_close_holes failed"
    ELSE "meshing_re_orient_faces_coherently failed"

\* repair_op, worked out once for each set of flags.
RepairOpTable ==
    {[flags |-> flags, manifold |-> manifold, raised |-> repair_op(flags, manifold)] :
        flags \in Flags, manifold \in BOOLEAN}

\* batch_repair(input_dir, output_dir, output_format, **flags,
\* recursive=recursive), lines 148-165, out being what output_dir holds:
\* batch_process with _op for the operation.  How it ends, the records and
\* what output_dir holds then, for each way the meshes of the files can
\* be: manifold[i] tells whether the mesh of the i-th file is manifold.
batch_repair(tree, output_format, flags, recursive, out) ==
    LET files == mesh_files(tree, recursive)
        raised == [manifold \in BOOLEAN |->
                     (CHOOSE t \in RepairOpTable :
                         t.flags = flags /\ t.manifold = manifold).raised]
    IN  {batch_loop(tree, files, [i \in 1..Len(files) |-> raised[manifold[i]]],
                    output_format, out, <<>>) :
           manifold \in [1..Len(files) -> BOOLEAN]}

InitRepair ==
    /\ \E k \in 0..MaxMeshes :
          /\ ms = [s \in {"session"} |-> Loaded(k)]
          /\ hist = [s \in {"session"} |-> LoadsOnly(k)]
    /\ call = NoCall
    /\ thr = <<>>
    /\ disk = NoDisk

\* repair_mesh(session, mesh_id, ...), from the call to the return or the
\* exception.
RepairMesh(s) ==
    /\ call.op = "none"
    /\ \E arg \in {NoneGiven} \cup {GivenId(id) : id \in MeshIds},
          flags \in Flags, manifold \in BOOLEAN :
          \E r \in repair_mesh(ms[s], arg, flags, manifold) :
             /\ ms' = [ms EXCEPT ![s] = r.m]
             /\ call' = Invocation("repair_mesh", s, arg, r)
                          @@ [flags |-> flags, manifold |-> manifold]
    /\ UNCHANGED <<thr, hist, disk>>

\* The mesh_id arguments of the repair functions.
MeshIdArgs == {NoneGiven} \cup {GivenId(id) : id \in MeshIds}

\* A repair function called by itself ends with r.
RepairStep(s, op, arg, r) ==
    /\ ms' = [ms EXCEPT ![s] = r.m]
    /\ call' = Invocation(op, s, arg, r)
    /\ UNCHANGED <<thr, hist, disk>>

\* remove_duplicate_faces(session, mesh_id)
RemoveDuplicateFaces(s) ==
    /\ call.op = "none"
    /\ \E arg \in MeshIdArgs : \E r \in remove_duplicate_faces(ms[s], arg) :
          RepairStep(s, "remove_duplicate_faces", arg, r)

\* remove_duplicate_vertices(session, mesh_id)
RemoveDuplicateVertices(s) ==
    /\ call.op = "none"
    /\ \E arg \in MeshIdArgs : \E r \in remove_duplicate_vertices(ms[s], arg) :
          RepairStep(s, "remove_duplicate_vertices", arg, r)

\* fill_holes(session, mesh_id)
FillHoles(s) ==
    /\ call.op = "none"
    /\ \E arg \in MeshIdArgs, manifold \in BOOLEAN :
          \E r \in fill_holes(ms[s], arg, manifold) :
             RepairStep(s, "fill_holes", arg, r)

\* fix_normals(session, mesh_id)
FixNormals(s) ==
    /\ call.op = "none"
    /\ \E arg \in MeshIdArgs, manifold \in BOOLEAN :
          \E r \in fix_normals(ms[s], arg, manifold) :
             RepairStep(s, "fix_normals", arg, r)

\* remove_isolated_pieces(session, mesh_id)
RemoveIsolatedPieces(s) ==
    /\ call.op = "none"
    /\ \E arg \in MeshIdArgs : \E r \in remove_isolated_pieces(ms[s], arg) :
          RepairStep(s, "remove_isolated_pieces", arg, r)

NextRepair ==
    \/ \E s \in DOMAIN ms : RepairMesh(s)
    \/ \E s \in DOMAIN ms : RemoveDuplicateFaces(s)
    \/ \E s \in DOMAIN ms : RemoveDuplicateVertices(s)
    \/ \E s \in DOMAIN ms : FillHoles(s)
    \/ \E s \in DOMAIN ms : FixNormals(s)
    \/ \E s \in DOMAIN ms : RemoveIsolatedPieces(s)

SpecRepair == InitRepair /\ [][NextRepair]_vars

----------------------------------------------------------------------------
(* The MCP server (mcp_server.py).  A tool call reads the files its          *)
(* arguments name, in the input directory or among the files earlier calls  *)
(* have written to the output directory, and answers with a list of          *)
(* contents.                                                                 *)

\* The tools list_tools() advertises, by name.
list_tools ==
    {"load_mesh", "get_mesh_info", "repair_mesh", "align_icp", "global_align",
     "batch_repair", "batch_align"}

\* A path of the output directory.
Out(path) == [root |-> "output_dir", path |-> path]

\* What the file a path names holds on disk d.
file_content(d, ref) ==
    IF ref.root = "output_dir"
    THEN IF ref.path \in d.output THEN "mesh" ELSE "missing"
    ELSE target_content(d.input, ref)

\* The exceptions of a tool call, and str(exc).  A KeyError shows the repr
\* of the missing key, any other exception its message; the message of an
\* exception of the engine or of a list is held as the exception's name.
Exception(type, args) == [type |-> type, args |-> args]
str(exc) ==
    IF exc.type = "KeyError" THEN <<"'", exc.args[1], "'">> ELSE exc.args

\* How _dispatch ends: the session it leaves behind, what it has added to
\* output_dir (files written, directories made), and the value it returns
\* or the exception it raises.
Nothing == [files |-> {}, dirs |-> {}]
ToolReturned(session, written, result) ==
    [outcome |-> "returned", result |-> result, session |-> session,
     written |-> written]
ToolRaised(session, written, exc) ==
    [outcome |-> "raised", exc |-> exc, session |-> session, written |-> written]

\* args.get(key, default).
get(args, key, default) == IF key \in DOMAIN args THEN args[key] ELSE default

\* One session for all calls, each call going on with what the call before
\* left in it.
module_session(previous) == previous

\* session = MeshlabSession() at the head of a tool's branch.
new_session(previous) == MeshlabSession

\* session.load_mesh(path) for each path in turn, session.mesh_info()
\* appended after each where with_infos; the first file the engine cannot
\* load ends it.
RECURSIVE load_each(_, _, _, _, _)
load_each(session, d, paths, infos, with_infos) ==
    IF paths = <<>>
    THEN ToolReturned(session, Nothing, infos)
    ELSE IF file_content(d, paths[1]) # "mesh"
    THEN ToolRaised(session, Nothing, Exception("PyMeshLabException", <<"load_new_mesh failed">>))
    ELSE LET loaded == loaded_into(session, paths[1])
         IN  load_each(loaded, d, Tail(paths),
                       IF with_infos THEN Append(infos, mesh_info(loaded.m))
                       ELSE infos,
                       with_infos)

\* session.save_mesh(path, mesh_id) of a tool on disk d, written being
\* what the branch has added to output_dir so far, connection.py lines
\* 99-108: the mesh is selected where an id is given; the directories above
\* the path are made, which raises where one of them is a file; and the
\* engine writes the file if it knows the format and no directory has the
\* name.  The directories stay when the engine refuses.
tool_save(session, d, written, path, arg) ==
    LET held == [files |-> d.output \cup written.files,
                 dirs |-> d.dirs \cup written.dirs]
        selects == ~arg.given \/ HasMesh(session.m, arg.mesh_id)
        selected == IF arg.given
                    THEN [session EXCEPT !.m = set_current_mesh(@, arg.mesh_id)]
                    ELSE session
        made == [written EXCEPT !.dirs = @ \cup parents(path)]
        r == save_mesh(session.m, arg,
                       saves(mkdir(held, path), path,
                             lower(suffix(path[Len(path)]))))
    IN  IF ~selects
        THEN ToolRaised(session, written,
                        Exception("PyMeshLabException", <<"PyMeshLabException">>))
        ELSE IF mkdir_raises(held, path) # "none"
        THEN ToolRaised(selected, written,
                        Exception(mkdir_raises(held, path),
                                  <<mkdir_raises(held, path)>>))
        ELSE IF r.outcome = "raised"
        THEN ToolRaised(selected, made, Exception(r.exc, <<r.exc>>))
        ELSE ToolReturned(selected, [made EXCEPT !.files = @ \cup {path}], "None")

\* The branch of the load_mesh tool, lines 289-295.
load_mesh_tool(args, d, previous) ==
    LET session == new_session(previous)
    IN  IF "paths" \notin DOMAIN args
        THEN {ToolRaised(session, Nothing, Exception("KeyError", <<"paths">>))}
        ELSE LET r == load_each(session, d, args.paths, <<>>, TRUE)
             IN  IF r.outcome = "raised" THEN {r}
                 ELSE {ToolReturned(r.session, Nothing, [meshes |-> r.result])}

\* The branch of the get_mesh_info tool, lines 297-300.
get_mesh_info_tool(args, d, previous) ==
    LET session == new_session(previous)
    IN  IF "path" \notin DOMAIN args
        THEN {ToolRaised(session, Nothing, Exception("KeyError", <<"path">>))}
        ELSE LET r == load_each(session, d, <<args.path>>, <<>>, FALSE)
             IN  IF r.outcome = "raised" THEN {r}
                 ELSE {ToolReturned(r.session, Nothing, mesh_info(r.session.m))}

\* The branch of the repair_mesh tool, lines 302-315.  Each flag is True
\* unless the arguments say otherwise, the argument "fill_holes" being the
\* flag fill_mesh_holes; the file's mesh is manifold or is not.
repair_mesh_tool(args, d, previous) ==
    LET session == new_session(previous)
        flags ==
            [remove_duplicates |-> get(args, "remove_duplicates", TRUE),
             fill_mesh_holes |-> get(args, "fill_holes", TRUE),
             reorient_normals |-> get(args, "reorient_normals", TRUE),
             remove_small_components |-> get(args, "remove_small_components", TRUE)]
    IN  IF "input_path" \notin DOMAIN args
        THEN {ToolRaised(session, Nothing, Exception("KeyError", <<"input_path">>))}
        ELSE LET l == load_each(session, d, <<args.input_path>>, <<>>, FALSE)
             IN  IF l.outcome = "raised" THEN {l}
                 ELSE {IF r.outcome = "raised"
                       THEN ToolRaised([l.session EXCEPT !.m = r.m], Nothing, Exception(r.exc, <<r.exc>>))
                       ELSE LET repaired == [l.session EXCEPT !.m = r.m]
                            IN  IF "output_path" \notin DOMAIN args
                                THEN ToolRaised(repaired, Nothing, Exception("KeyError", <<"output_path">>))
                                ELSE LET s == tool_save(repaired, d, Nothing,
                                                        args.output_path.path,
                                                        NoneGiven)
                                     IN  IF s.outcome = "raised" THEN s
                                         ELSE ToolReturned(s.session, s.written,
                                                  [repair_results |-> r.result,
                                                   output |-> args.output_path]) :
                          r \in UNION {repair_mesh(l.session.m, NoneGiven,
                                                   flags, manifold) :
                                          manifold \in BOOLEAN}}

\* The branch of the align_icp tool, lines 317-329.
align_icp_tool(args, d, previous) ==
    LET session == new_session(previous)
    IN  IF "target_path" \notin DOMAIN args
        THEN {ToolRaised(session, Nothing, Exception("KeyError", <<"target_path">>))}
        ELSE LET t == load_each(session, d, <<args.target_path>>, <<>>, FALSE)
             IN  IF t.outcome = "raised" THEN {t}
                 ELSE IF "source_path" \notin DOMAIN args
                 THEN {ToolRaised(t.session, Nothing, Exception("KeyError", <<"source_path">>))}
                 ELSE LET l == load_each(t.session, d, <<args.source_path>>, <<>>, FALSE)
                      IN  IF l.outcome = "raised" THEN {l}
                          ELSE LET source_id == l.session.m.cur
                                   r == align_icp(l.session.m, source_id, 0,
                                                  get(args, "max_iterations",
                                                      max_iterations))
                                   aligned == [l.session EXCEPT !.m = r.m]
                               IN  IF r.outcome = "raised"
                                   THEN {ToolRaised(aligned, Nothing, Exception(r.exc, <<r.exc>>))}
                                   ELSE IF "output_path" \notin DOMAIN args
                                   THEN {ToolRaised(aligned, Nothing, Exception("KeyError", <<"output_path">>))}
                                   ELSE LET s == tool_save(aligned, d, Nothing,
                                                           args.output_path.path,
                                                           GivenId(source_id))
                                        IN  IF s.outcome = "raised" THEN {s}
                                            ELSE {ToolReturned(s.session, s.written,
                                                     [alignment |-> r.result,
                                                      output |-> args.output_path])}

\* The saving loop of the global_align tool, lines 339-342, from the i-th
\* path on (i counted from 0): mesh i goes to the stem of the i-th path
\* with the format appended.
RECURSIVE save_each(_, _, _, _, _, _, _)
save_each(session, d, mesh_paths, i, fmt, outputs, written) ==
    IF i >= Len(mesh_paths)
    THEN ToolReturned(session, written, outputs)
    ELSE LET p == mesh_paths[i + 1].path
             out == with_suffix(<<p[Len(p)]>>, fmt)
             s == tool_save(session, d, written, out, GivenId(i))
         IN  IF s.outcome = "raised" THEN s
             ELSE save_each(s.session, d, mesh_paths, i + 1, fmt,
                            Append(outputs, Out(out)), s.written)

\* The branch of the global_align tool, lines 331-343.
global_align_tool(args, d, previous) ==
    LET session == new_session(previous)
    IN  IF "mesh_paths" \notin DOMAIN args
        THEN {ToolRaised(session, Nothing, Exception("KeyError", <<"mesh_paths">>))}
        ELSE LET l == load_each(session, d, args.mesh_paths, <<>>, FALSE)
             IN  IF l.outcome = "raised" THEN {l}
                 ELSE {IF r.outcome = "raised"
                       THEN ToolRaised([l.session EXCEPT !.m = r.m], Nothing, Exception(r.exc, <<r.exc>>))
                       ELSE LET aligned == [l.session EXCEPT !.m = r.m]
                            IN  IF "output_dir" \notin DOMAIN args
                                THEN ToolRaised(aligned, Nothing, Exception("KeyError", <<"output_dir">>))
                                ELSE LET s == save_each(aligned, d, args.mesh_paths, 0,
                                                  get(args, "output_format",
                                                      <<".", "p", "l", "y">>),
                                                  <<>>, Nothing)
                                     IN  IF s.outcome = "raised" THEN s
                                         ELSE ToolReturned(s.session, s.written,
                                                  [alignment |-> r.result,
                                                   outputs |-> s.result]) :
                          r \in global_align(l.session.m, NoneGiven)}

\* The first of the keys the arguments lack, "" if they have them all.
RECURSIVE first_missing(_, _)
first_missing(args, keys) ==
    IF keys = <<>> THEN ""
    ELSE IF keys[1] \notin DOMAIN args THEN keys[1]
    ELSE first_missing(args, Tail(keys))

\* The branch of the batch_repair tool, lines 346-359.  The sessions of the
\* batch are batch_process's own, the branch builds none; each flag is True
\* unless the arguments say otherwise.
batch_repair_tool(args, d, previous) ==
    LET missing == first_missing(args, <<"input_dir", "output_dir">>)
        flags ==
            [remove_duplicates |-> get(args, "remove_duplicates", TRUE),
             fill_mesh_holes |-> get(args, "fill_holes", TRUE),
             reorient_normals |-> get(args, "reorient_normals", TRUE),
             remove_small_components |-> get(args, "remove_small_components", TRUE)]
    IN  IF missing # ""
        THEN {ToolRaised(MeshlabSession, Nothing, Exception("KeyError", <<missing>>))}
        ELSE LET fmt == get(args, "output_format", <<".", "p", "l", "y">>)
             IN  {IF b.outcome = "returned"
                  THEN ToolReturned(MeshlabSession, b.out,
                                    [results |-> b.records])
                  ELSE ToolRaised(MeshlabSession, b.out,
                                  Exception(b.exc, <<b.exc>>)) :
                     b \in batch_repair(d.input, fmt, flags,
                                        get(args, "recursive", FALSE),
                                        output_dir(d))}

\* The branch of the batch_align tool, lines 360-370.
batch_align_tool(args, d, previous) ==
    LET missing == first_missing(args, <<"input_dir", "output_dir", "target_mesh">>)
    IN  IF missing # ""
        THEN {ToolRaised(MeshlabSession, Nothing, Exception("KeyError", <<missing>>))}
        ELSE LET fmt == get(args, "output_format", <<".", "p", "l", "y">>)
                 files == mesh_files(d.input, get(args, "recursive", FALSE))
                 loop == align_loop(d.input, files, args.target_mesh, fmt,
                                    get(args, "icp_max_iterations", max_iterations),
                                    output_dir(d), <<>>)
             IN  {IF loop.outcome = "returned"
                  THEN ToolReturned(MeshlabSession, loop.out,
                                    [results |-> align_end(loop).result])
                  ELSE ToolRaised(MeshlabSession, loop.out,
                                  Exception(loop.exc, <<loop.exc>>))}

\* _dispatch(name, args) on disk d: the ways it can end.  previous is the
\* session the call before left, which no branch looks at; a branch that
\* builds no session leaves none.
dispatch(name, args, d, previous) ==
    CASE name = "load_mesh" -> load_mesh_tool(args, d, previous)
      [] name = "get_mesh_info" -> get_mesh_info_tool(args, d, previous)
      [] name = "repair_mesh" -> repair_mesh_tool(args, d, previous)
      [] name = "align_icp" -> align_icp_tool(args, d, previous)
      [] name = "global_align" -> global_align_tool(args, d, previous)
      [] name = "batch_repair" -> batch_repair_tool(args, d, previous)
      [] name = "batch_align" -> batch_align_tool(args, d, previous)
      [] OTHER -> {ToolRaised(MeshlabSession, Nothing,
                      Exception("ValueError", <<"Unknown tool: ", "'", name, "'">>))}

\* json.dumps(value, indent=2): the text that holds value as JSON.
json_dumps(value) == [json |-> value]
TextContent(text) == [type |-> "text", text |-> text]

\* The exception of _dispatch let through to the caller of call_tool.
uncaught(r) ==
    IF r.outcome = "raised"
    THEN [outcome |-> "raised", exc |-> r.exc]
    ELSE [outcome |-> "returned",
          content |-> <<TextContent(json_dumps(r.result))>>]

\* The try statement of call_tool around one end r of _dispatch, lines
\* 276-285.
try_dispatch(r) ==
    IF r.outcome = "raised"
    THEN [outcome |-> "returned",
          content |-> <<TextContent(json_dumps([error |-> str(r.exc)]))>>]
    ELSE [outcome |-> "returned",
          content |-> <<TextContent(json_dumps(r.result))>>]

\* The calls the clients of the server make on disk d: the advertised
\* tools with the arguments they need, with optional ones, or with one
\* missing, and two names that are no tool of the server.  The files they
\* name are the entries of the input directory and the first output name;
\* the two output names are one in a format the engine writes and one it
\* does not, both in a directory below output_dir that save_mesh has to
\* make.
ToolCalls(d) ==
    LET paths ==
            {Inside(e.path) : e \in d.input}
            \cup {Out(<<<<"d", "e", "e", "p">>, <<"o", ".", "p", "l", "y">>>>)}
        lists ==
            {<<>>} \cup {<<p>> : p \in paths}
            \cup {<<p, q>> : p \in paths, q \in paths}
        outputs ==
            {Out(<<<<"d", "e", "e", "p">>, n>>) :
                n \in {<<"o", ".", "p", "l", "y">>, <<"o", ".", "t", "x", "t">>}}
    IN  {[name |-> "load_mesh", arguments |-> [paths |-> ps]] : ps \in lists}
        \cup {[name |-> n, arguments |-> [path |-> p]] :
                 n \in {"get_mesh_info", "load_mesh", "batch_process", "list_meshes"},
                 p \in paths}
        \cup {[name |-> "repair_mesh",
               arguments |-> [input_path |-> p, output_path |-> o,
                              fill_holes |-> FALSE, reorient_normals |-> FALSE,
                              remove_small_components |-> FALSE]] :
                 p \in paths, o \in outputs}
        \cup {[name |-> "repair_mesh",
               arguments |-> [input_path |-> p,
                              output_path |-> Out(<<<<"d", "e", "e", "p">>, <<"o", ".", "p", "l", "y">>>>),
                              remove_duplicates |-> FALSE]] :
                 p \in paths}
        \cup {[name |-> n, arguments |-> [input_path |-> p]] :
                 n \in {"repair_mesh", "get_mesh_info"}, p \in paths}
        \cup {[name |-> "align_icp",
               arguments |-> [target_path |-> t, source_path |-> p, output_path |-> o]] :
                 t \in paths, p \in paths, o \in outputs}
        \cup {[name |-> "align_icp",
               arguments |-> [target_path |-> t, source_path |-> t,
                              output_path |-> Out(<<<<"d", "e", "e", "p">>, <<"o", ".", "p", "l", "y">>>>),
                              max_iterations |-> 5]] :
                 t \in paths}
        \cup {[name |-> "align_icp", arguments |-> [target_path |-> t]] :
                 t \in paths}
        \cup {[name |-> "global_align",
               arguments |-> [mesh_paths |-> ps, output_dir |-> "output_dir"]] :
                 ps \in lists}
        \cup {[name |-> "global_align",
               arguments |-> [mesh_paths |-> <<p>>, output_dir |-> "output_dir",
                              output_format |-> <<".", "t", "x", "t">>]] :
                 p \in paths}
        \cup {[name |-> "global_align", arguments |-> [mesh_paths |-> <<p>>]] :
                 p \in paths}
        \cup {[name |-> n,
               arguments |-> [input_dir |-> "input_dir", output_dir |-> "output_dir"]] :
                 n \in {"batch_repair", "batch_align"}}
        \cup {[name |-> "batch_repair",
               arguments |-> [input_dir |-> "input_dir", output_dir |-> "output_dir",
                              output_format |-> <<".", "t", "x", "t">>,
                              recursive |-> TRUE]]}
        \cup {[name |-> "batch_repair",
               arguments |-> [input_dir |-> "input_dir", output_dir |-> "output_dir",
                              fill_holes |-> FALSE, reorient_normals |-> FALSE]]}
        \cup {[name |-> "batch_align",
               arguments |-> [input_dir |-> "input_dir", output_dir |-> "output_dir",
                              target_mesh |-> t]] :
                 t \in {Inside(e.path) : e \in d.input} \cup {Elsewhere("mesh")}}

\* The trees of the server's input directory: at most two files, of two
\* names at the top, or one mesh file in the sub-directory.
ToolTrees ==
    LET files ==
            {e \in Entries :
                e.path \in {<<<<"a", ".", "p", "l", "y">>>>, <<<<"a", ".", "o", "b", "j">>>>}}
        below ==
            {e \in Entries :
                /\ e.path = <<SubDir, <<"a", ".", "p", "l", "y">>>>
                /\ e.content = "mesh"}
    IN  {t \in {{}} \cup {{e1, e2} : e1 \in files, e2 \in files} :
            \A e1 \in t, e2 \in t : e1.path = e2.path => e1 = e2}
        \cup {below}

\* No call has been made: no session exists, nothing is in output_dir.
InitMcp ==
    /\ ms = MeshlabSession
    /\ call = NoCall
    /\ thr = <<>>
    /\ hist = [loaded |-> FALSE]
    /\ disk \in {[input |-> t, output |-> {}, dirs |-> {}] : t \in ToolTrees}

\* call_tool(name, arguments), from the request to the answer.  ms is the
\* session of the latest call that built one; hist tells whether a call
\* has loaded a mesh yet.
call_tool ==
    \E c \in ToolCalls(disk) :
       \E r \in dispatch(c.name, c.arguments, disk, ms) :
          /\ call' = [op |-> "call_tool", name |-> c.name,
                      arguments |-> c.arguments,
                      after_loads |-> hist.loaded,
                      dispatched |-> [f \in DOMAIN r \ {"written"} |-> r[f]],
                      end |-> try_dispatch(r)]
          /\ ms' = r.session
          /\ hist' = [loaded |-> hist.loaded \/ r.session.loaded # <<>>]
          /\ disk' = [disk EXCEPT !.output = @ \cup r.written.files,
                                  !.dirs = @ \cup r.written.dirs]
          /\ thr' = thr

NextMcp == call_tool

SpecMcp == InitMcp /\ [][NextMcp]_vars

----------------------------------------------------------------------------
(* C11 *)

BatchReturned == call.op = "batch_process" /\ call.end.outcome = "returned"
\* The records batch_process returned, and the numbers they carry.
Records == call.end.result
RecordNos == 1..Len(Records)

\* Loading the input file of record rec, the operation and saving all
\* complete without an exception.
Completes(rec) ==
    /\ ContentAt(disk.input, rec.input) = "mesh"
    /\ call.operation = "noop"
    /\ call.output_format \in Writable
    /\ rec.output \notin disk.dirs

\* The message of the exception that ends the processing of rec's file.
MessageOf(rec) ==
    IF ContentAt(disk.input, rec.input) # "mesh" THEN "load_new_mesh failed"
    ELSE IF call.operation # "noop" THEN "intentional failure"
    ELSE "save_current_mesh failed"

\* C11: batch_process, called with a suffix for the output format,
\* returns whatever happens to the single files; a
\* record has status "ok" exactly when loading, the operation and saving
\* completed, and then its output file has been written and it has no
\* "error" key; every other record has status "error" and holds the
\* exception's message under "error".
C11_FailuresBecomeRecords ==
    (call.op = "batch_process" /\ valid_suffix(call.output_format)) =>
        /\ call.end.outcome = "returned"
        /\ \A i \in RecordNos :
              LET rec == Records[i]
              IN  IF Completes(rec)
                  THEN /\ rec.status = "ok"
                       /\ "error" \notin DOMAIN rec
                       /\ rec.output \in disk.output
                  ELSE /\ rec.status = "error"
                       /\ "error" \in DOMAIN rec
                       /\ rec.error = MessageOf(rec)

----------------------------------------------------------------------------
(* C12 *)

\* The mesh files of the input directory the call is to process.
IsMeshFile(e) ==
    /\ e.kind = "file"
    /\ lower(suffix(e.path[Len(e.path)])) \in MESH_EXTENSIONS
    /\ call.recursive \/ Len(e.path) = 1

\* C12: batch_process returns exactly one record per mesh file of the input
\* directory (direct children only unless recursive), in sorted path order,
\* whether or not earlier files failed; other files yield no record and an
\* empty directory yields the empty list.
C12_OneRecordPerMeshFile ==
    BatchReturned =>
        /\ {Records[i].input : i \in RecordNos} =
              {e.path : e \in {x \in disk.input : IsMeshFile(x)}}
        /\ \A i \in RecordNos, j \in RecordNos :
              i < j => PathLess(Records[i].input, Records[j].input)
        /\ disk.input = {} => Records = <<>>

\* A non-recursive batch over a tree with a mesh file below the top, an
\* entry that is no mesh file, and a failed file ahead of another record.
C12_Witness ==
    /\ BatchReturned
    /\ ~call.recursive
    /\ \E e \in disk.input : Len(e.path) = 2 /\ e.content = "mesh"
    /\ Len(Records) = 2
    /\ Records[1].status = "error"
    /\ Cardinality(disk.input) = 3

----------------------------------------------------------------------------
(* C13 *)

\* Python's None, among results that are numbers otherwise.
IsNone(v) == v \notin Int

\* C13: align_icp returns a dict whose source_mesh_id and target_mesh_id
\* are the arguments and whose iterations_performed and final_rms_error
\* are both None.
C13_IcpReportsNone ==
    Did("align_icp") =>
        /\ call.end.result.source_mesh_id = call.args[1]
        /\ call.end.result.target_mesh_id = call.args[2]
        /\ IsNone(call.end.result.iterations_performed)
        /\ IsNone(call.end.result.final_rms_error)

----------------------------------------------------------------------------
(* C14 *)

\* C14: align_icp moves only the source mesh.  However the call ends, every
\* mesh other than the source, the target among them, is what it was and
\* the session holds the meshes it held; when the call returns, the source
\* mesh has been registered once, against the target as reference mesh.
C14_IcpMovesOnlySource ==
    call.op = "align_icp" =>
        /\ Held = call.before.ids
        /\ \A id \in DOMAIN call.before.geom :
              id # call.args[1] => ms[call.session].geom[id] = call.before.geom[id]
        /\ call.end.outcome = "returned" =>
              ms[call.session].geom[call.args[1]] =
                 Append(call.before.geom[call.args[1]], IcpMatrix(call.args[2]))

\* A returned align_icp call of a source onto another mesh, the target.
C14_Witness ==
    /\ Did("align_icp")
    /\ call.args[1] # call.args[2]
    /\ call.before.cur = call.args[2]
    /\ ms[call.session].geom[call.args[2]] = <<>>

----------------------------------------------------------------------------
(* C15 *)

\* C15: a returned align_point_based call without pairs reports method
\* "icp_fallback" and has run exactly one ICP registration of the source
\* onto the target; a returned call with pairs reports method "point_based"
\* with pairs_used the number of pairs, and has run no ICP registration.
C15_FallbackOnlyWithoutPairs ==
    CallReturned =>
        /\ \A id \in DOMAIN After.geom :
              id # call.source_mesh_id => After.geom[id] = call.before.geom[id]
        /\ IF call.point_pairs = <<>>
           THEN /\ call.end.result.method = "icp_fallback"
                /\ After.geom[call.source_mesh_id] =
                      Append(call.before.geom[call.source_mesh_id],
                             IcpMatrix(call.target_mesh_id))
           ELSE /\ call.end.result.method = "point_based"
                /\ call.end.result.pairs_used = Len(call.point_pairs)
                /\ \A i \in 1..Len(After.geom[call.source_mesh_id]) :
                      "icp" \notin DOMAIN After.geom[call.source_mesh_id][i]

\* A returned call without pairs, of a source onto another mesh.
C15_Witness ==
    /\ CallReturned
    /\ call.point_pairs = <<>>
    /\ call.source_mesh_id # call.target_mesh_id
    /\ Len(After.geom[call.source_mesh_id]) = 1

----------------------------------------------------------------------------
(* C16 *)

\* C16: global_align called with mesh_ids=None on a session that load_mesh
\* and delete_mesh calls have left with meshes returns, and
\* aligned_mesh_ids lists the ids of the meshes the session holds, each
\* once; called with mesh_ids, it returns that list.
C16_AllMeshesAligned ==
    (call.op = "global_align" /\ NoRawCall /\ mesh_number(call.before) > 0) =>
        IF call.args.given
        THEN call.end.outcome = "returned" =>
                call.end.result.aligned_mesh_ids = call.args.mesh_ids
        ELSE /\ call.end.outcome = "returned"
             /\ Len(call.end.result.aligned_mesh_ids) = mesh_number(call.before)
             /\ {call.end.result.aligned_mesh_ids[i] :
                    i \in 1..Len(call.end.result.aligned_mesh_ids)} = call.before.ids

----------------------------------------------------------------------------
(* C17 *)

\* C17: a new session holds no mesh, and after any calls of load_mesh and
\* delete_mesh mesh_count is the number of loads less the number of
\* deletes that succeeded; load_mesh returns the id of the mesh it has
\* loaded, an id no other mesh of the session has.
C17_CountAndFreshIds ==
    /\ \A s \in DOMAIN ms :
          ~hist[s].raw => mesh_number(ms[s]) = hist[s].loads - hist[s].deletes
    /\ Did("load_mesh") =>
          /\ call.end.result \notin call.before.ids
          /\ Held = call.before.ids \cup {call.end.result}

\* A load after the deletion of an earlier mesh, into a session that still
\* holds a mesh.
C17_Witness ==
    /\ Did("load_mesh")
    /\ NoRawCall
    /\ hist[call.session].deletes = 1
    /\ call.before.ids = {1}

----------------------------------------------------------------------------
(* C18 *)

\* C18: after load_mesh and delete_mesh calls list_meshes does not fail,
\* and returns as many records as the session holds meshes, one for each,
\* carrying the mesh's own id.
C18_ListsEveryMesh ==
    (call.op = "list_meshes" /\ NoRawCall) =>
        /\ call.end.outcome = "returned"
        /\ Len(call.end.result) = mesh_number(call.before)
        /\ {call.end.result[i].mesh_id : i \in 1..Len(call.end.result)} = call.before.ids

----------------------------------------------------------------------------
(* C19 *)

\* The engine functions apply_filter reaches that neither make, select
\* nor delete a mesh.
QuietFilters ==
    MeshFilters \cup {"mesh_number", "current_mesh", "current_mesh_id",
                      "save_current_mesh", "set_matrix",
                      "compute_matrix_by_icp_between_meshes",
                      "compute_matrix_by_mesh_global_alignment", NoSuchFilter}

\* The step is a call that neither loads nor selects a mesh for its caller:
\* global_align, list_meshes, mesh_info or save_mesh of the current mesh,
\* or apply_filter of one of the quiet functions.
QuietCall ==
    \/ call'.op \in {"global_align", "list_meshes"}
    \/ call'.op \in {"mesh_info", "save_mesh"} /\ ~call'.args.given
    \/ call'.op = "apply_filter" /\ call'.args[1] \in QuietFilters

\* C19: after set_active_mesh(k) for a mesh k of the session the current
\* mesh is k, after load_mesh it is the mesh just loaded, and a call that
\* neither selects nor loads a mesh leaves the current mesh what it was.
C19_SelectionStays ==
    /\ [](Did("set_active_mesh") => ms[call.session].cur = call.args[1])
    /\ [](Did("load_mesh") => ms[call.session].cur = call.end.result)
    /\ [][QuietCall => \A s \in DOMAIN ms : ms'[s].cur = ms[s].cur]_vars

----------------------------------------------------------------------------
(* C20 *)

\* C20: the dict repair_mesh returns has a key for a step exactly when the
\* step was enabled: "duplicate_faces" and "duplicate_vertices" iff
\* remove_duplicates, "hole_filling" iff fill_mesh_holes, "normals" iff
\* reorient_normals, "isolated_pieces" iff remove_small_components, and no
\* other key.
C20_KeysFollowFlags ==
    Did("repair_mesh") =>
        LET keys == DOMAIN call.end.result
        IN  /\ "duplicate_faces" \in keys <=> call.flags.remove_duplicates
            /\ "duplicate_vertices" \in keys <=> call.flags.remove_duplicates
            /\ "hole_filling" \in keys <=> call.flags.fill_mesh_holes
            /\ "normals" \in keys <=> call.flags.reorient_normals
            /\ "isolated_pieces" \in keys <=> call.flags.remove_small_components
            /\ keys \subseteq {"duplicate_faces", "duplicate_vertices",
                               "hole_filling", "normals", "isolated_pieces"}

\* A returned call with remove_duplicates alone enabled.
C20_Witness ==
    /\ Did("repair_mesh")
    /\ call.flags.remove_duplicates
    /\ ~call.flags.fill_mesh_holes
    /\ ~call.flags.reorient_normals
    /\ ~call.flags.remove_small_components
    /\ DOMAIN call.end.result = {"duplicate_faces", "duplicate_vertices"}

----------------------------------------------------------------------------
(* C21 *)

\* The latest invocation was repair_mesh with mesh_id given, a mesh the
\* session holds.
RepairedById ==
    /\ call.op = "repair_mesh"
    /\ call.args.given
    /\ HasMesh(call.before, call.args.mesh_id)

\* The engine filters run on mesh id during the call.
FiltersRunOn(id) ==
    SubSeq(ms[call.session].geom[id],
           Len(call.before.geom[id]) + 1, Len(ms[call.session].geom[id]))

\* C21: repair_mesh(session, mesh_id=k) runs every engine filter of the
\* call on mesh k, which is the current mesh when the call ends, and leaves
\* every other mesh of the session as it was; a call that returns has run a
\* filter on k for every enabled step.
C21_RepairsOnlyMeshK ==
    RepairedById =>
        /\ ms[call.session].cur = call.args.mesh_id
        /\ Held = call.before.ids
        /\ \A id \in DOMAIN call.before.geom :
              id # call.args.mesh_id => ms[call.session].geom[id] = call.before.geom[id]
        /\ call.end.outcome = "returned" =>
              (FiltersRunOn(call.args.mesh_id) = <<>>
                  <=> DOMAIN call.end.result = {})

\* A returned repair of mesh 0, with steps enabled, in a session whose
\* current mesh was another.
C21_Witness ==
    /\ RepairedById
    /\ call.end.outcome = "returned"
    /\ call.args.mesh_id = 0
    /\ call.before.cur = 1
    /\ FiltersRunOn(0) # <<>>

----------------------------------------------------------------------------
(* C24 *)

\* The engine filters of the enabled steps in the order duplicate faces,
\* duplicate vertices, hole filling, normals, small components; the second
\* filter of the normals step is either of two.
FiltersInOrder(flags, compute_normal) ==
    (IF flags.remove_duplicates
     THEN <<"meshing_remove_duplicate_faces",
            "meshing_remove_duplicate_vertices",
            "meshing_remove_unreferenced_vertices">>
     ELSE <<>>)
    \o (IF flags.fill_mesh_holes THEN <<"meshing_close_holes">> ELSE <<>>)
    \o (IF flags.reorient_normals
        THEN <<"meshing_re_orient_faces_coherently", compute_normal>>
        ELSE <<>>)
    \o (IF flags.remove_small_components
        THEN <<"meshing_remove_connected_component_by_face_number">>
        ELSE <<>>)

\* The names of the filters the call ran, in the order it ran them.
FiltersRun ==
    LET run == FiltersRunOn(ms[call.session].cur)
    IN  [i \in 1..Len(run) |-> run[i].filter]

IsPrefix(p, q) == Len(p) <= Len(q) /\ SubSeq(q, 1, Len(p)) = p

\* C24: the engine filters a repair_mesh call runs are those of its enabled
\* steps, in the fixed order, each step after the one before it; no filter
\* of a disabled step is run; a call that raises has run a prefix of them.
C24_StepsInFixedOrder ==
    (call.op = "repair_mesh" /\ ms[call.session].cur # NoMesh) =>
        \E compute_normal \in {"compute_normal_for_point_clouds",
                               "compute_normal_per_vertex"} :
           LET expected == FiltersInOrder(call.flags, compute_normal)
           IN  IF call.end.outcome = "returned"
               THEN FiltersRun = expected
               ELSE IsPrefix(FiltersRun, expected)

\* A returned call with every step enabled.
C24_Witness ==
    /\ Did("repair_mesh")
    /\ call.flags.remove_duplicates
    /\ call.flags.fill_mesh_holes
    /\ call.flags.reorient_normals
    /\ call.flags.remove_small_components
    /\ Len(FiltersRun) = 7

----------------------------------------------------------------------------
(* C26 *)

\* C26: list_meshes on a session that holds meshes leaves the current mesh
\* what it was before the call.
C26_ListingKeepsSelection ==
    (call.op = "list_meshes" /\ mesh_number(call.before) > 0) =>
        ms[call.session].cur = call.before.cur

----------------------------------------------------------------------------
(* C22 *)

\* The input files of the batch that hold a mesh, which are the files the
\* operation is called for.
LoadableInputs ==
    {Records[i].input :
        i \in {j \in RecordNos : ContentAt(disk.input, Records[j].input) = "mesh"}}

\* C22: batch_process calls the operation once for every input file that
\* loads, in the order of the files, each time with a session that holds
\* exactly one mesh, the mesh of that file, untouched; nothing loaded for
\* another file is in it.
C22_FreshSessionPerFile ==
    BatchReturned =>
        /\ Len(call.sessions) = Cardinality(LoadableInputs)
        /\ \A i \in 1..Len(call.sessions) :
              /\ call.sessions[i].m = load_new_mesh(MeshSet)
              /\ Len(call.sessions[i].loaded) = 1
              /\ call.sessions[i].loaded[1] \in LoadableInputs
        /\ \A i \in 1..Len(call.sessions), j \in 1..Len(call.sessions) :
              i < j => PathLess(call.sessions[i].loaded[1], call.sessions[j].loaded[1])

\* A batch that called the operation for three files.
C22_Witness ==
    /\ BatchReturned
    /\ Len(call.sessions) = 3
    /\ call.operation = "noop"

----------------------------------------------------------------------------
(* C23 *)

AlignReturned == call.op = "batch_align" /\ call.end.outcome = "returned"

\* The mesh files of the input directory the batch_align call is to go
\* through, the target among them or not.
AlignCandidates ==
    {e.path : e \in {x \in disk.input : IsMeshFile(x)}}

\* The path names the target of the call.
NamesTarget(path) ==
    /\ call.target.root = "input_dir"
    /\ SelectSeq(call.target.path, LAMBDA part : part # <<".">>) = path

\* C23: batch_align yields no record for the file that is the target and
\* one for every other mesh file; for each of these the session holds the
\* target as mesh 0 and the source, if it was loaded, as mesh 1; what is
\* saved is mesh 1, the source, under the record's output path; a record
\* with status "ok" has the key "alignment" and no "error", any other has
\* status "error", the key "error" and no "alignment".
C23_TargetNeverASource ==
    AlignReturned =>
        /\ {Records[i].input : i \in RecordNos} =
              {path \in AlignCandidates : ~NamesTarget(path)}
        /\ Len(call.runs) = Len(Records)
        /\ \A i \in RecordNos :
              LET run == call.runs[i]
                  rec == Records[i]
              IN  /\ run.session.loaded \in
                        {<<>>, <<<<"target">>>>, <<<<"target">>, rec.input>>}
                  /\ mesh_number(run.session.m) = Len(run.session.loaded)
                  /\ IF rec.status = "ok"
                     THEN /\ DOMAIN rec = {"input", "output", "status", "alignment"}
                          /\ rec.alignment.source_mesh_id = 1
                          /\ rec.alignment.target_mesh_id = 0
                          /\ run.session.loaded = <<<<"target">>, rec.input>>
                          /\ run.session.m.geom[0] = <<>>
                          /\ run.saved = <<[output |-> rec.output, mesh_id |-> 1]>>
                          /\ rec.output \in disk.output
                     ELSE /\ rec.status = "error"
                          /\ DOMAIN rec = {"input", "output", "status", "error"}
                          /\ run.saved = <<>>

\* A batch_align whose target is a mesh file of the input directory, named
\* with a "." part, beside a source that was aligned and saved and one that
\* failed to load.
C23_Witness ==
    /\ AlignReturned
    /\ call.target.root = "input_dir"
    /\ call.target.path[1] = <<".">>
    /\ \E path \in AlignCandidates : NamesTarget(path)
    /\ \E i \in RecordNos, j \in RecordNos :
          Records[i].status = "ok" /\ Records[j].status = "error"

----------------------------------------------------------------------------
(* C27 *)

\* C27: within one batch_process or batch_align run, the records of
\* distinct input files name distinct output paths.
C27_DistinctOutputs ==
    (call.op \in {"batch_process", "batch_align"} /\ call.end.outcome = "returned") =>
        \A i \in RecordNos, j \in RecordNos :
            Records[i].input # Records[j].input =>
                Records[i].output # Records[j].output

----------------------------------------------------------------------------
(* C25 *)

ToolCalled == call.op = "call_tool"

\* The one content of the answer and the JSON value its text holds.
Answered ==
    /\ call.end.outcome = "returned"
    /\ Len(call.end.content) = 1
    /\ call.end.content[1].type = "text"
    /\ DOMAIN call.end.content[1].text = {"json"}
Answer == call.end.content[1].text.json

\* What str() gives for the exception _dispatch raised.
RaisedMessage ==
    IF call.dispatched.exc.type = "KeyError"
    THEN <<"'", call.dispatched.exc.args[1], "'">>
    ELSE call.dispatched.exc.args

\* C25: call_tool never lets an exception through: whatever the tool name
\* and the arguments, it returns exactly one text content holding JSON, the
\* tool's result where _dispatch returned and {"error": message} where it
\* raised; a name _dispatch does not know gives the error "Unknown tool".
C25_CallToolAlwaysAnswers ==
    ToolCalled =>
        /\ Answered
        /\ IF call.dispatched.outcome = "returned"
           THEN Answer = call.dispatched.result /\ "error" \notin DOMAIN Answer
           ELSE Answer = [error |-> RaisedMessage]
        /\ call.name \notin list_tools =>
              Answer = [error |-> <<"Unknown tool: ", "'", call.name, "'">>]

\* A call of batch_process, which is no tool of the server, answered with
\* the error.
C25_Witness ==
    /\ ToolCalled
    /\ call.name = "batch_process"
    /\ Answered
    /\ DOMAIN Answer = {"error"}

----------------------------------------------------------------------------
(* C28 *)

\* The files the call's arguments tell its tool to load, in the order the
\* tool loads them.
NamedFiles ==
    LET args == call.arguments
        one(key) == IF key \in DOMAIN args THEN <<args[key]>> ELSE <<>>
    IN  CASE call.name = "load_mesh" ->
                IF "paths" \in DOMAIN args THEN args.paths ELSE <<>>
          [] call.name = "get_mesh_info" -> one("path")
          [] call.name = "repair_mesh" -> one("input_path")
          [] call.name = "align_icp" ->
                IF "target_path" \in DOMAIN args
                THEN one("target_path") \o one("source_path") ELSE <<>>
          [] call.name = "global_align" ->
                IF "mesh_paths" \in DOMAIN args THEN args.mesh_paths ELSE <<>>
          [] OTHER -> <<>>

\* The ids 0, 1, ... of k meshes loaded into an empty session.
FirstIds(k) == [i \in 1..k |-> i - 1]

\* C28: every tool list_tools advertises is handled by _dispatch, and a
\* call works in a session of its own: the session holds the files the
\* call itself named and loaded, with ids from 0 on, and nothing of an
\* earlier call; the ids in the result are these, whatever was called
\* before.
C28_CallsShareNothing ==
    ToolCalled =>
        LET r == call.dispatched
        IN  /\ call.name \in list_tools =>
                  ~(r.outcome = "raised" /\ r.exc.type = "ValueError")
            /\ IsPrefix(r.session.loaded, NamedFiles)
            /\ r.session.m.ids = 0..(Len(r.session.loaded) - 1)
            /\ r.outcome = "returned" =>
                  /\ r.session.loaded = NamedFiles
                  /\ call.name = "load_mesh" =>
                        r.result.meshes =
                            [i \in 1..Len(NamedFiles) |-> [mesh_id |-> i - 1]]
                  /\ call.name = "get_mesh_info" => r.result = [mesh_id |-> 0]
                  /\ call.name = "align_icp" =>
                        /\ r.result.alignment.target_mesh_id = 0
                        /\ r.result.alignment.source_mesh_id = 1
                  /\ call.name = "global_align" =>
                        r.result.alignment.aligned_mesh_ids =
                            FirstIds(Len(NamedFiles))

\* A load_mesh call of two files that returned, after an earlier call has
\* loaded meshes into its session.
C28_Witness ==
    /\ ToolCalled
    /\ call.after_loads
    /\ call.name = "load_mesh"
    /\ call.dispatched.outcome = "returned"
    /\ Len(call.dispatched.result.meshes) = 2
====
